---- MODULE Spec2Model ----
(***************************************************************************)
(* NexusVerseToken (src/blockchain/contracts/NexusVerseToken.sol): an      *)
(* ERC-20 ledger with owner minting under a supply cap, pausing, and a     *)
(* staking pool that mints time-proportional rewards.                      *)
(*                                                                         *)
(* Every external call is one atomic step.  A call that reverts leaves the *)
(* contract's storage as it was.  The variable `last` records the latest   *)
(* call: a committed call with its sender and arguments, a reverted call   *)
(* with its name and revert reason only.  `calls` counts committed calls   *)
(* and bounds the length of the histories explored.                        *)
(*                                                                         *)
(* Units.  Amounts are in the token's smallest unit.  block.timestamp is   *)
(* counted in whole days, so the Solidity literal `365 days` is 365 and    *)
(*   staked * rate * (d * 86400) / (365 * 86400 * 10000)                   *)
(*     = staked * rate * d / (365 * 10000)                                 *)
(* exactly, floor included.  The two supply constants keep their 1 : 10    *)
(* ratio at a magnitude the model checker's integers can hold.             *)
(*                                                                         *)
(* NexusVerseIdentity (same file, lines 167-374): identity records, a      *)
(* verification history per address, the reverse index from identity hash  *)
(* to address, and the set of authorized verifiers.  The two contracts do  *)
(* not call each other: Spec and SpecRewards run the token and leave the   *)
(* registry as deployed, SpecIdentity runs the registry and leaves the     *)
(* token as deployed.  SpecPlatform runs both side by side, each with the  *)
(* ownership functions it inherits from Ownable, for the statements that   *)
(* span the two contracts.                                                 *)
(***************************************************************************)
EXTENDS Integers, FiniteSets, Sequences, TLC

VARIABLES
    balanceOf,          \* ERC20._balances, address -> amount
    totalSupply,        \* ERC20._totalSupply
    stakedAmount,       \* mapping(address => uint256) stakedAmount
    stakingStartTime,   \* mapping(address => uint256) stakingStartTime
    totalStaked,        \* uint256 totalStaked
    rewardRate,         \* uint256 rewardRate (basis points)
    paused,             \* Pausable._paused
    tokenOwner,         \* owner() of the token (Ownable)
    allowance,          \* ERC20._allowances, owner -> spender -> amount
    now,                \* block.timestamp, in days
    last,               \* the last external call and its outcome
    calls,              \* number of calls that have committed so far
    identities,             \* mapping(address => Identity) identities
    verifications,          \* mapping(address => Verification[]) verifications
    identityHashToAddress,  \* mapping(bytes32 => address) identityHashToAddress
    authorizedVerifiers,    \* mapping(address => bool) authorizedVerifiers
    registryOwner,          \* owner() of the registry (Ownable)
    rewardsPaid,        \* history: rewards minted to each address (SpecStaker)
    rewardsAccrued      \* history: sum of stake * rate * days held (SpecStaker)

vars == <<balanceOf, totalSupply, stakedAmount, stakingStartTime, totalStaked,
          rewardRate, paused, tokenOwner, allowance, now, last, calls,
          identities, verifications, identityHashToAddress, authorizedVerifiers,
          registryOwner, rewardsPaid, rewardsAccrued>>

ledger == <<balanceOf, totalSupply, stakedAmount, stakingStartTime, totalStaked,
            rewardRate, paused, tokenOwner, allowance>>

registry == <<identities, verifications, identityHashToAddress, authorizedVerifiers,
              registryOwner>>

accrual == <<rewardsPaid, rewardsAccrued>>

----------------------------------------------------------------------------
(* Addresses *)

ZERO == "0x0"
Owner == "owner"
This == "this"
Callers == {"owner", "alice"}
Holders == Callers \cup {This}
Recipients == Holders \cup {ZERO}

(* Program constants *)

INITIAL_SUPPLY == 1000
MAX_SUPPLY == 10 * INITIAL_SUPPLY
DAYS_365 == 365
BASIS_POINTS == 10000
MAX_REWARD_RATE == 1000
INITIAL_REWARD_RATE == 100

(* Bounds of the model *)

MaxTime == 730
MaxCalls == 3
TimeSteps == {365}
AmountInputs == {0, 500}
MintInputs == {0, 9000}
RateInputs == {0, 500, 1500}

----------------------------------------------------------------------------
(* The contract's storage as one value, threaded through the statements of *)
(* a call.  err = "ok" until a require or a library check fails; after     *)
(* that every later statement is skipped.                                  *)

Storage ==
    [balanceOf |-> balanceOf, totalSupply |-> totalSupply,
     stakedAmount |-> stakedAmount, stakingStartTime |-> stakingStartTime,
     totalStaked |-> totalStaked, rewardRate |-> rewardRate,
     paused |-> paused, owner |-> tokenOwner, allowance |-> allowance,
     minted |-> 0, err |-> "ok"]

revert(s, reason) == IF s.err = "ok" THEN [s EXCEPT !.err = reason] ELSE s

require(s, cond, reason) == IF cond THEN s ELSE revert(s, reason)

(* The contract inherits ERC20, ERC20Burnable, ERC20Pausable and Ownable    *)
(* from OpenZeppelin (imports at lines 4-8) and overrides _update only to  *)
(* call super._update, which resolves to ERC20Pausable._update: the        *)
(* whenNotPaused check, then ERC20._update.  Every balance change, a mint  *)
(* (from = 0) and a burn (to = 0) included, goes through it.  The revert   *)
(* reasons of the library are named as the library names its errors.       *)

\* Mutant: the staked amount counts as spendable balance.
_update_spendStake(s, from, to, value) ==
    IF s.err # "ok" THEN s
    ELSE IF s.paused THEN revert(s, "EnforcedPause")
    ELSE IF from # ZERO /\ s.balanceOf[from] + s.stakedAmount[from] < value
         THEN revert(s, "ERC20InsufficientBalance")
    ELSE LET s1 == IF from = ZERO
                   THEN [s EXCEPT !.totalSupply = @ + value]
                   ELSE [s EXCEPT !.balanceOf[from] = @ - value]
         IN  IF to = ZERO
             THEN [s1 EXCEPT !.totalSupply = @ - value]
             ELSE [s1 EXCEPT !.balanceOf[to] = @ + value]

\* Mutant: ERC20Pausable's whenNotPaused is left out of the override chain.
_update_unpaused(s, from, to, value) ==
    IF s.err # "ok" THEN s
    ELSE IF from # ZERO /\ s.balanceOf[from] < value
         THEN revert(s, "ERC20InsufficientBalance")
    ELSE LET s1 == IF from = ZERO
                   THEN [s EXCEPT !.totalSupply = @ + value]
                   ELSE [s EXCEPT !.balanceOf[from] = @ - value]
         IN  IF to = ZERO
             THEN [s1 EXCEPT !.totalSupply = @ - value]
             ELSE [s1 EXCEPT !.balanceOf[to] = @ + value]

_update(s, from, to, value) ==
    IF s.err # "ok" THEN s
    ELSE IF s.paused THEN revert(s, "EnforcedPause")
    ELSE IF from # ZERO /\ s.balanceOf[from] < value
         THEN revert(s, "ERC20InsufficientBalance")
    ELSE LET s1 == IF from = ZERO
                   THEN [s EXCEPT !.totalSupply = @ + value]
                   ELSE [s EXCEPT !.balanceOf[from] = @ - value]
         IN  IF to = ZERO
             THEN [s1 EXCEPT !.totalSupply = @ - value]
             ELSE [s1 EXCEPT !.balanceOf[to] = @ + value]

\* Mutant: minting bypasses the pause check.
_mint_unpaused(s, account, value) ==
    IF account = ZERO THEN revert(s, "ERC20InvalidReceiver")
    ELSE _update_unpaused(s, ZERO, account, value)

_mint(s, account, value) ==
    IF account = ZERO THEN revert(s, "ERC20InvalidReceiver")
    ELSE _update(s, ZERO, account, value)

_burn(s, account, value) == _update(s, account, ZERO, value)

\* Mutant: a transfer credits the recipient without debiting the sender.
_transfer_creditOnly(s, from, to, value) ==
    IF to = ZERO THEN revert(s, "ERC20InvalidReceiver")
    ELSE IF s.err # "ok" THEN s
    ELSE IF s.paused THEN revert(s, "EnforcedPause")
    ELSE IF s.balanceOf[from] < value THEN revert(s, "ERC20InsufficientBalance")
    ELSE [s EXCEPT !.balanceOf[to] = @ + value]

_transfer(s, from, to, value) ==
    IF to = ZERO THEN revert(s, "ERC20InvalidReceiver")
    ELSE _update(s, from, to, value)

\* Mutant: the caller is not checked.
onlyOwner_anyCaller(s, sender) == s

onlyOwner(s, sender) == require(s, sender = s.owner, "OwnableUnauthorizedAccount")

\* Mutant: the rate is taken as a percentage, not as basis points.
calculateRewards_percent(s, t, user) ==
    IF s.stakedAmount[user] = 0 THEN 0
    ELSE LET stakingDuration == t - s.stakingStartTime[user]
         IN  (s.stakedAmount[user] * s.rewardRate * stakingDuration)
                 \div (DAYS_365 * 100)

\* Mutant: only the time since the last whole year is counted.
calculateRewards_yearly(s, t, user) ==
    IF s.stakedAmount[user] = 0 THEN 0
    ELSE LET stakingDuration == (t - s.stakingStartTime[user]) % DAYS_365
         IN  (s.stakedAmount[user] * s.rewardRate * stakingDuration)
                 \div (DAYS_365 * BASIS_POINTS)

calculateRewards(s, t, user) ==
    IF s.stakedAmount[user] = 0 THEN 0
    ELSE LET stakingDuration == t - s.stakingStartTime[user]
         IN  (s.stakedAmount[user] * s.rewardRate * stakingDuration)
                 \div (DAYS_365 * BASIS_POINTS)

settle(s, t, sender) ==
    LET rewards == calculateRewards(s, t, sender)
    IN  IF s.err = "ok" /\ rewards > 0
        THEN [_mint(s, sender, rewards) EXCEPT !.minted = rewards]
        ELSE s

\* Mutant: the balance is checked after the pending reward has been minted.
stake_settleFirst(s, t, sender, amount) ==
    LET s1 == require(s, amount > 0, "Amount must be greater than 0")
        s2 == settle(s1, t, sender)
        s3 == require(s2, s2.balanceOf[sender] >= amount, "Insufficient balance")
        s4 == _transfer(s3, sender, This, amount)
    IN  IF s4.err # "ok" THEN s4
        ELSE [s4 EXCEPT !.stakedAmount[sender] = @ + amount,
                        !.stakingStartTime[sender] = t,
                        !.totalStaked = @ + amount]

\* Mutant: the stake is booked without moving the tokens into the pool.
stake_noTransfer(s, t, sender, amount) ==
    LET s1 == require(s, amount > 0, "Amount must be greater than 0")
        s2 == require(s1, s.balanceOf[sender] >= amount, "Insufficient balance")
        s3 == settle(s2, t, sender)
    IN  IF s3.err # "ok" THEN s3
        ELSE [s3 EXCEPT !.stakedAmount[sender] = @ + amount,
                        !.stakingStartTime[sender] = t,
                        !.totalStaked = @ + amount]

stake(s, t, sender, amount) ==
    LET s1 == require(s, amount > 0, "Amount must be greater than 0")
        s2 == require(s1, s.balanceOf[sender] >= amount, "Insufficient balance")
        s3 == settle(s2, t, sender)
        s4 == _transfer(s3, sender, This, amount)
    IN  IF s4.err # "ok" THEN s4
        ELSE [s4 EXCEPT !.stakedAmount[sender] = @ + amount,
                        !.stakingStartTime[sender] = t,
                        !.totalStaked = @ + amount]

\* Mutant: the amount is checked against the pool, not the caller's stake.
unstake_fromPool(s, t, sender, amount) ==
    LET s1 == require(s, amount > 0, "Amount must be greater than 0")
        s2 == require(s1, s.totalStaked >= amount, "Insufficient staked amount")
        s3 == settle(s2, t, sender)
        s4 == IF s3.err # "ok" THEN s3
              ELSE [s3 EXCEPT !.stakedAmount[sender] = @ - amount,
                              !.totalStaked = @ - amount]
    IN  _transfer(s4, This, sender, amount)

\* Mutant: totalStaked is not reduced by the unstaked amount.
unstake_keepTotal(s, t, sender, amount) ==
    LET s1 == require(s, amount > 0, "Amount must be greater than 0")
        s2 == require(s1, s.stakedAmount[sender] >= amount,
                      "Insufficient staked amount")
        s3 == settle(s2, t, sender)
        s4 == IF s3.err # "ok" THEN s3
              ELSE [s3 EXCEPT !.stakedAmount[sender] = @ - amount]
    IN  _transfer(s4, This, sender, amount)

unstake(s, t, sender, amount) ==
    LET s1 == require(s, amount > 0, "Amount must be greater than 0")
        s2 == require(s1, s.stakedAmount[sender] >= amount,
                      "Insufficient staked amount")
        s3 == settle(s2, t, sender)
        s4 == IF s3.err # "ok" THEN s3
              ELSE [s3 EXCEPT !.stakedAmount[sender] = @ - amount,
                              !.totalStaked = @ - amount]
    IN  _transfer(s4, This, sender, amount)

\* Mutant: the claimed reward is added to the stake as well.
claimRewards_restake(s, t, sender) ==
    LET rewards == calculateRewards(s, t, sender)
        s1 == require(s, rewards > 0, "No rewards to claim")
        s2 == IF s1.err = "ok"
              THEN [_mint(s1, sender, rewards) EXCEPT !.minted = rewards]
              ELSE s1
    IN  IF s2.err # "ok" THEN s2
        ELSE [s2 EXCEPT !.stakingStartTime[sender] = t,
                        !.stakedAmount[sender] = @ + rewards]

\* Mutant: the claim pays the reward without moving the checkpoint.
claimRewards_noCheckpoint(s, t, sender) ==
    LET rewards == calculateRewards(s, t, sender)
        s1 == require(s, rewards > 0, "No rewards to claim")
    IN  IF s1.err = "ok"
        THEN [_mint(s1, sender, rewards) EXCEPT !.minted = rewards]
        ELSE s1

claimRewards(s, t, sender) ==
    LET rewards == calculateRewards(s, t, sender)
        s1 == require(s, rewards > 0, "No rewards to claim")
        s2 == IF s1.err = "ok"
              THEN [_mint(s1, sender, rewards) EXCEPT !.minted = rewards]
              ELSE s1
    IN  IF s2.err # "ok" THEN s2
        ELSE [s2 EXCEPT !.stakingStartTime[sender] = t]

\* Mutant: the new rate is averaged with the rate it replaces.
updateRewardRate_average(s, sender, newRate) ==
    LET s1 == onlyOwner(s, sender)
        s2 == require(s1, newRate <= MAX_REWARD_RATE, "Reward rate too high")
    IN  IF s2.err # "ok" THEN s2
        ELSE [s2 EXCEPT !.rewardRate = (@ + newRate) \div 2]

\* Mutant: any rate is accepted.
updateRewardRate_noLimit(s, sender, newRate) ==
    LET s1 == onlyOwner(s, sender)
    IN  IF s1.err # "ok" THEN s1 ELSE [s1 EXCEPT !.rewardRate = newRate]

updateRewardRate(s, sender, newRate) ==
    LET s1 == onlyOwner(s, sender)
        s2 == require(s1, newRate <= MAX_REWARD_RATE, "Reward rate too high")
    IN  IF s2.err # "ok" THEN s2 ELSE [s2 EXCEPT !.rewardRate = newRate]

pause(s, sender) ==
    LET s1 == onlyOwner(s, sender)
        s2 == require(s1, ~s.paused, "EnforcedPause")
    IN  IF s2.err # "ok" THEN s2 ELSE [s2 EXCEPT !.paused = TRUE]

unpause(s, sender) ==
    LET s1 == onlyOwner(s, sender)
        s2 == require(s1, s.paused, "ExpectedPause")
    IN  IF s2.err # "ok" THEN s2 ELSE [s2 EXCEPT !.paused = FALSE]

\* Mutant: the supply cap is not checked.
mint_noCap(s, sender, to, amount) == _mint(onlyOwner(s, sender), to, amount)

mint(s, sender, to, amount) ==
    LET s1 == onlyOwner(s, sender)
        s2 == require(s1, s.totalSupply + amount <= MAX_SUPPLY, "Exceeds max supply")
    IN  _mint(s2, to, amount)

transfer(s, sender, to, value) == _transfer(s, sender, to, value)

burn(s, sender, value) == _burn(s, sender, value)

(* Allowances, inherited from ERC20 and ERC20Burnable.  An allowance of     *)
(* type(uint256).max is unlimited: spending leaves it as it is.             *)

MAX_UINT256 == 2147483647

NoAllowance == [a \in Recipients |-> [b \in Recipients |-> 0]]

_approve(s, owner, spender, value) ==
    IF s.err # "ok" THEN s
    ELSE IF owner = ZERO THEN revert(s, "ERC20InvalidApprover")
    ELSE IF spender = ZERO THEN revert(s, "ERC20InvalidSpender")
    ELSE [s EXCEPT !.allowance[owner][spender] = value]

approve(s, sender, spender, value) == _approve(s, sender, spender, value)

\* Mutant: any spender may spend, with or without an allowance.
_spendAllowance_unchecked(s, owner, spender, value) == s

_spendAllowance(s, owner, spender, value) ==
    LET currentAllowance == s.allowance[owner][spender]
    IN  IF s.err # "ok" THEN s
        ELSE IF currentAllowance = MAX_UINT256 THEN s
        ELSE IF currentAllowance < value
             THEN revert(s, "ERC20InsufficientAllowance")
        ELSE _approve(s, owner, spender, currentAllowance - value)

transferFrom(s, sender, from, to, value) ==
    LET s1 == _spendAllowance(s, from, sender, value)
    IN  IF from = ZERO THEN revert(s1, "ERC20InvalidSender")
        ELSE _transfer(s1, from, to, value)

burnFrom(s, sender, account, value) ==
    LET s1 == _spendAllowance(s, account, sender, value)
    IN  IF account = ZERO THEN revert(s1, "ERC20InvalidSender")
        ELSE _burn(s1, account, value)

----------------------------------------------------------------------------
(* NexusVerseIdentity.  The registry's storage is threaded through a call  *)
(* the same way; revert and require are the ones above.  The registry is   *)
(* deployed by the same owner.  It inherits Ownable unchanged, so its      *)
(* owner can hand the ownership over or give it up.                        *)

ZERO_HASH == 0

IdCallers == {"owner", "alice"}
VerifierInputs == IdCallers \cup {ZERO}
HashInputs == {ZERO_HASH, 1, 2}
MetadataInputs == {"ipfs-1", "ipfs-2"}
ReasonInputs == {"kyc"}
RegisterMetadataInputs == {"ipfs-1"}
MaxIdCalls == 4
MaxIdTime == 365

NoIdentity ==
    [identityHash |-> ZERO_HASH, createdAt |-> 0, isVerified |-> FALSE,
     isActive |-> FALSE, metadata |-> ""]

(* The events of the registry.  A call's result carries in log the events *)
(* it has emitted; an event has the fields of all six declarations, the   *)
(* ones it does not declare left at their zero values.                    *)
(* OwnershipTransferred, which the inherited Ownable declares, is not     *)
(* among them.                                                            *)
RegistryEvent(name, user, verifier, identityHash, metadata) ==
    [name |-> name, user |-> user, verifier |-> verifier,
     identityHash |-> identityHash, metadata |-> metadata]

IdentityRegistered(user, identityHash) ==
    RegistryEvent("IdentityRegistered", user, ZERO, identityHash, "")

IdentityVerified(user, verifier) ==
    RegistryEvent("IdentityVerified", user, verifier, ZERO_HASH, "")

IdentityRevoked(user) ==
    RegistryEvent("IdentityRevoked", user, ZERO, ZERO_HASH, "")

VerifierAuthorized(verifier) ==
    RegistryEvent("VerifierAuthorized", ZERO, verifier, ZERO_HASH, "")

VerifierRevoked(verifier) ==
    RegistryEvent("VerifierRevoked", ZERO, verifier, ZERO_HASH, "")

MetadataUpdated(user, metadata) ==
    RegistryEvent("MetadataUpdated", user, ZERO, ZERO_HASH, metadata)

emit(s, event) == [s EXCEPT !.log = Append(@, event)]

Registry ==
    [identities |-> identities, verifications |-> verifications,
     identityHashToAddress |-> identityHashToAddress,
     authorizedVerifiers |-> authorizedVerifiers, owner |-> registryOwner,
     err |-> "ok", log |-> << >>]

RegistryDeployed ==
    /\ identities = [a \in IdCallers |-> NoIdentity]
    /\ verifications = [a \in IdCallers |-> << >>]
    /\ identityHashToAddress = [h \in HashInputs |-> ZERO]
    /\ authorizedVerifiers = [a \in VerifierInputs |-> a = Owner]
    /\ registryOwner = Owner

onlyRegistryOwner(s, sender) ==
    require(s, sender = s.owner, "OwnableUnauthorizedAccount")

onlyAuthorizedVerifier(s, sender) ==
    require(s, s.authorizedVerifiers[sender], "Not authorized verifier")

identityExists(s, user) ==
    require(s, s.identities[user].isActive, "Identity does not exist")

\* Mutant: a new registration keeps the verification flag of the old one.
registerIdentity_keepVerified(s, t, sender, identityHash, metadata) ==
    LET s1 == require(s, identityHash # ZERO_HASH, "Invalid identity hash")
        s2 == require(s1, ~s.identities[sender].isActive, "Identity already exists")
        s3 == require(s2, s.identityHashToAddress[identityHash] = ZERO,
                      "Identity hash already used")
    IN  IF s3.err # "ok" THEN s3
        ELSE [s3 EXCEPT
                 !.identities[sender] =
                     [identityHash |-> identityHash, createdAt |-> t,
                      isVerified |-> s.identities[sender].isVerified,
                      isActive |-> TRUE, metadata |-> metadata],
                 !.identityHashToAddress[identityHash] = sender]

\* Mutant: the reverse index is not written.
registerIdentity_noReverseIndex(s, t, sender, identityHash, metadata) ==
    LET s1 == require(s, identityHash # ZERO_HASH, "Invalid identity hash")
        s2 == require(s1, ~s.identities[sender].isActive, "Identity already exists")
        s3 == require(s2, s.identityHashToAddress[identityHash] = ZERO,
                      "Identity hash already used")
    IN  IF s3.err # "ok" THEN s3
        ELSE [s3 EXCEPT
                 !.identities[sender] =
                     [identityHash |-> identityHash, createdAt |-> t,
                      isVerified |-> FALSE, isActive |-> TRUE,
                      metadata |-> metadata]]

\* Mutant: a hash that is already bound to an address is accepted.
registerIdentity_noHashCheck(s, t, sender, identityHash, metadata) ==
    LET s1 == require(s, identityHash # ZERO_HASH, "Invalid identity hash")
        s2 == require(s1, ~s.identities[sender].isActive, "Identity already exists")
    IN  IF s2.err # "ok" THEN s2
        ELSE [s2 EXCEPT
                 !.identities[sender] =
                     [identityHash |-> identityHash, createdAt |-> t,
                      isVerified |-> FALSE, isActive |-> TRUE,
                      metadata |-> metadata],
                 !.identityHashToAddress[identityHash] = sender]

\* Mutant: a registration starts the address's history afresh.
registerIdentity_clearHistory(s, t, sender, identityHash, metadata) ==
    LET s1 == require(s, identityHash # ZERO_HASH, "Invalid identity hash")
        s2 == require(s1, ~s.identities[sender].isActive, "Identity already exists")
        s3 == require(s2, s.identityHashToAddress[identityHash] = ZERO,
                      "Identity hash already used")
    IN  IF s3.err # "ok" THEN s3
        ELSE [s3 EXCEPT
                 !.identities[sender] =
                     [identityHash |-> identityHash, createdAt |-> t,
                      isVerified |-> FALSE, isActive |-> TRUE,
                      metadata |-> metadata],
                 !.identityHashToAddress[identityHash] = sender,
                 !.verifications[sender] = << >>]

registerIdentity(s, t, sender, identityHash, metadata) ==
    LET s1 == require(s, identityHash # ZERO_HASH, "Invalid identity hash")
        s2 == require(s1, ~s.identities[sender].isActive, "Identity already exists")
        s3 == require(s2, s.identityHashToAddress[identityHash] = ZERO,
                      "Identity hash already used")
    IN  IF s3.err # "ok" THEN s3
        ELSE emit([s3 EXCEPT
                 !.identities[sender] =
                     [identityHash |-> identityHash, createdAt |-> t,
                      isVerified |-> FALSE, isActive |-> TRUE,
                      metadata |-> metadata],
                 !.identityHashToAddress[identityHash] = sender],
             IdentityRegistered(sender, identityHash))

\* Mutant: any caller may verify.
verifyIdentity_anyCaller(s, t, sender, user, isValid, reason) ==
    LET s2 == identityExists(s, user)
        s3 == require(s2, ~s.identities[user].isVerified, "Identity already verified")
    IN  IF s3.err # "ok" THEN s3
        ELSE [s3 EXCEPT
                 !.identities[user].isVerified = isValid,
                 !.verifications[user] =
                     Append(@, [verifier |-> sender, timestamp |-> t,
                                isValid |-> isValid, reason |-> reason])]

\* Mutant: an accepted verification writes no record.
verifyIdentity_unrecorded(s, t, sender, user, isValid, reason) ==
    LET s1 == onlyAuthorizedVerifier(s, sender)
        s2 == identityExists(s1, user)
        s3 == require(s2, ~s.identities[user].isVerified, "Identity already verified")
    IN  IF s3.err # "ok" THEN s3
        ELSE IF isValid
             THEN emit([s3 EXCEPT !.identities[user].isVerified = TRUE],
                       IdentityVerified(user, sender))
        ELSE emit([s3 EXCEPT
                      !.verifications[user] =
                          Append(@, [verifier |-> sender, timestamp |-> t,
                                     isValid |-> FALSE, reason |-> reason])],
                  IdentityVerified(user, sender))

\* Mutant: an identity with a verification record cannot be verified again.
verifyIdentity_rejectionFinal(s, t, sender, user, isValid, reason) ==
    LET s1 == onlyAuthorizedVerifier(s, sender)
        s2 == identityExists(s1, user)
        s3 == require(s2, ~s.identities[user].isVerified
                          /\ s.verifications[user] = << >>,
                      "Identity already verified")
    IN  IF s3.err # "ok" THEN s3
        ELSE [s3 EXCEPT
                 !.identities[user].isVerified = isValid,
                 !.verifications[user] =
                     Append(@, [verifier |-> sender, timestamp |-> t,
                                isValid |-> isValid, reason |-> reason])]

\* Mutant: a verified identity can be verified again.
verifyIdentity_repeatable(s, t, sender, user, isValid, reason) ==
    LET s1 == onlyAuthorizedVerifier(s, sender)
        s2 == identityExists(s1, user)
    IN  IF s2.err # "ok" THEN s2
        ELSE [s2 EXCEPT
                 !.identities[user].isVerified = isValid,
                 !.verifications[user] =
                     Append(@, [verifier |-> sender, timestamp |-> t,
                                isValid |-> isValid, reason |-> reason])]

verifyIdentity(s, t, sender, user, isValid, reason) ==
    LET s1 == onlyAuthorizedVerifier(s, sender)
        s2 == identityExists(s1, user)
        s3 == require(s2, ~s.identities[user].isVerified, "Identity already verified")
    IN  IF s3.err # "ok" THEN s3
        ELSE emit([s3 EXCEPT
                 !.identities[user].isVerified = isValid,
                 !.verifications[user] =
                     Append(@, [verifier |-> sender, timestamp |-> t,
                                isValid |-> isValid, reason |-> reason])],
             IdentityVerified(user, sender))

\* Mutant: revocation deletes the identity record.
revokeIdentity_delete(s, sender, user) ==
    LET s1 == onlyRegistryOwner(s, sender)
        s2 == identityExists(s1, user)
    IN  IF s2.err # "ok" THEN s2
        ELSE [s2 EXCEPT
                 !.identities[user] = NoIdentity,
                 !.identityHashToAddress[s.identities[user].identityHash] = ZERO]

\* Mutant: revocation leaves the hash bound to the revoked address.
revokeIdentity_keepIndex(s, sender, user) ==
    LET s1 == onlyRegistryOwner(s, sender)
        s2 == identityExists(s1, user)
    IN  IF s2.err # "ok" THEN s2
        ELSE [s2 EXCEPT !.identities[user].isActive = FALSE]

revokeIdentity(s, sender, user) ==
    LET s1 == onlyRegistryOwner(s, sender)
        s2 == identityExists(s1, user)
    IN  IF s2.err # "ok" THEN s2
        ELSE emit([s2 EXCEPT
                 !.identities[user].isActive = FALSE,
                 !.identityHashToAddress[s.identities[user].identityHash] = ZERO],
             IdentityRevoked(user))

\* Mutant: a metadata change puts the identity back to unverified.
updateMetadata_unverify(s, sender, metadata) ==
    LET s1 == identityExists(s, sender)
    IN  IF s1.err # "ok" THEN s1
        ELSE [s1 EXCEPT !.identities[sender].metadata = metadata,
                        !.identities[sender].isVerified = FALSE]

updateMetadata(s, sender, metadata) ==
    LET s1 == identityExists(s, sender)
    IN  IF s1.err # "ok" THEN s1
        ELSE emit([s1 EXCEPT !.identities[sender].metadata = metadata],
                  MetadataUpdated(sender, metadata))

authorizeVerifier(s, sender, verifier) ==
    LET s1 == onlyRegistryOwner(s, sender)
        s2 == require(s1, verifier # ZERO, "Invalid verifier address")
        s3 == require(s2, ~s.authorizedVerifiers[verifier],
                      "Verifier already authorized")
    IN  IF s3.err # "ok" THEN s3
        ELSE emit([s3 EXCEPT !.authorizedVerifiers[verifier] = TRUE],
                  VerifierAuthorized(verifier))

\* Mutant: revoking a verifier withdraws the verifications it gave.
revokeVerifier_unverify(s, sender, verifier) ==
    LET s1 == onlyRegistryOwner(s, sender)
        s2 == require(s1, s.authorizedVerifiers[verifier], "Verifier not authorized")
        s3 == require(s2, verifier # s.owner, "Cannot revoke owner")
        GivenBy(u) == /\ s.verifications[u] # << >>
                      /\ s.verifications[u][Len(s.verifications[u])].verifier = verifier
    IN  IF s3.err # "ok" THEN s3
        ELSE [s3 EXCEPT
                 !.authorizedVerifiers[verifier] = FALSE,
                 !.identities =
                     [u \in DOMAIN @ |->
                         IF GivenBy(u) THEN [@[u] EXCEPT !.isVerified = FALSE]
                         ELSE @[u]]]

revokeVerifier(s, sender, verifier) ==
    LET s1 == onlyRegistryOwner(s, sender)
        s2 == require(s1, s.authorizedVerifiers[verifier], "Verifier not authorized")
        s3 == require(s2, verifier # s.owner, "Cannot revoke owner")
    IN  IF s3.err # "ok" THEN s3
        ELSE emit([s3 EXCEPT !.authorizedVerifiers[verifier] = FALSE],
                  VerifierRevoked(verifier))

transferOwnership(s, sender, newOwner) ==
    LET s1 == onlyRegistryOwner(s, sender)
        s2 == require(s1, newOwner # ZERO, "OwnableInvalidOwner")
    IN  IF s2.err # "ok" THEN s2
        ELSE [s2 EXCEPT !.owner = newOwner]

renounceOwnership(s, sender) ==
    LET s1 == onlyRegistryOwner(s, sender)
    IN  IF s1.err # "ok" THEN s1
        ELSE [s1 EXCEPT !.owner = ZERO]

getIdentity(s, user) == s.identities[user]

getVerificationHistory(s, user) == s.verifications[user]

hasVerifiedIdentity(s, user) ==
    s.identities[user].isActive /\ s.identities[user].isVerified

getAddressByIdentityHash(s, identityHash) == s.identityHashToAddress[identityHash]

getVerificationCount(s, user) == Len(s.verifications[user])

isAuthorizedVerifier(s, verifier) == s.authorizedVerifiers[verifier]

(* The reward history of SpecStaker starts empty. *)
AccrualInit ==
    /\ rewardsPaid = [a \in Callers |-> 0]
    /\ rewardsAccrued = [a \in Callers |-> 0]

----------------------------------------------------------------------------
(* A call commits the storage it computed, or reverts to the storage it    *)
(* started from.                                                            *)

Unrecorded == "-"

\* Mutant: a call that fails keeps what it had written before it failed.
Outcome_partial(r) == r

Outcome(r) == IF r.err = "ok" THEN r ELSE [Storage EXCEPT !.err = r.err]

LedgerCall(op, sender, to, amount, r) ==
    LET out == Outcome(r)
    IN  /\ balanceOf' = out.balanceOf
        /\ totalSupply' = out.totalSupply
        /\ stakedAmount' = out.stakedAmount
        /\ stakingStartTime' = out.stakingStartTime
        /\ totalStaked' = out.totalStaked
        /\ rewardRate' = out.rewardRate
        /\ paused' = out.paused
        /\ tokenOwner' = out.owner
        /\ allowance' = out.allowance
        /\ UNCHANGED now
        /\ IF out.err = "ok"
           THEN /\ calls < MaxCalls
                /\ calls' = calls + 1
                /\ last' = [op |-> op, sender |-> sender, to |-> to,
                            amount |-> amount, err |-> "ok", minted |-> out.minted]
           ELSE /\ calls' = calls
                /\ last' = [op |-> op, sender |-> Unrecorded, to |-> Unrecorded,
                            amount |-> 0, err |-> out.err, minted |-> 0]

Call(op, sender, to, amount, r) ==
    /\ LedgerCall(op, sender, to, amount, r)
    /\ UNCHANGED <<registry, accrual>>

TokenDeployed ==
    /\ balanceOf = [a \in Holders |-> IF a = Owner THEN INITIAL_SUPPLY ELSE 0]
    /\ totalSupply = INITIAL_SUPPLY
    /\ stakedAmount = [a \in Holders |-> 0]
    /\ stakingStartTime = [a \in Holders |-> 0]
    /\ totalStaked = 0
    /\ rewardRate = INITIAL_REWARD_RATE
    /\ paused = FALSE
    /\ tokenOwner = Owner
    /\ allowance = NoAllowance

Init ==
    /\ TokenDeployed
    /\ now = 0
    /\ last = [op |-> "constructor", sender |-> Owner, to |-> Owner,
               amount |-> INITIAL_SUPPLY, err |-> "ok", minted |-> 0]
    /\ calls = 0
    /\ RegistryDeployed
    /\ AccrualInit

Stake ==
    \E c \in Callers, amount \in AmountInputs :
        Call("stake", c, This, amount, stake(Storage, now, c, amount))

Unstake ==
    \E c \in Callers, amount \in AmountInputs :
        Call("unstake", c, c, amount, unstake(Storage, now, c, amount))

ClaimRewards ==
    \E c \in Callers :
        Call("claimRewards", c, c, 0, claimRewards(Storage, now, c))

UpdateRewardRate ==
    \E c \in Callers, newRate \in RateInputs :
        Call("updateRewardRate", c, c, newRate, updateRewardRate(Storage, c, newRate))

Pause ==
    \E c \in Callers : Call("pause", c, c, 0, pause(Storage, c))

Unpause ==
    \E c \in Callers : Call("unpause", c, c, 0, unpause(Storage, c))

Mint ==
    \E c \in Callers, to \in Recipients, amount \in MintInputs :
        Call("mint", c, to, amount, mint(Storage, c, to, amount))

Transfer ==
    \E c \in Callers, to \in Recipients, value \in AmountInputs :
        Call("transfer", c, to, value, transfer(Storage, c, to, value))

Burn ==
    \E c \in Callers, value \in AmountInputs :
        Call("burn", c, ZERO, value, burn(Storage, c, value))

Tick ==
    \E dt \in TimeSteps :
        /\ now + dt <= MaxTime
        /\ now' = now + dt
        /\ UNCHANGED <<ledger, last, calls, registry, accrual>>

Next ==
    \/ Stake
    \/ Unstake
    \/ ClaimRewards
    \/ UpdateRewardRate
    \/ Pause
    \/ Unpause
    \/ Mint
    \/ Transfer
    \/ Burn
    \/ Tick

Spec == Init /\ [][Next]_vars

----------------------------------------------------------------------------
(* getStakingInfo applied to chosen stakes, rates and elapsed times: the    *)
(* owner has staked `staked` of the initial supply at day 0 and the rate    *)
(* has been set by updateRewardRate.                                        *)

StakeInputs == {0, 1, 7, 500, 999, 1000}
RewardRateInputs == {0, 1, 100, 500, 999, 1000}
ElapsedInputs == {0, 1, 73, 364, 365, 366, 730}

getStakingInfo(s, t, user) ==
    [staked |-> s.stakedAmount[user],
     rewards |-> calculateRewards(s, t, user),
     stakingTime |-> s.stakingStartTime[user]]

InitRewards ==
    \E staked \in StakeInputs, rate \in RewardRateInputs :
        /\ balanceOf = [a \in Holders |->
                           IF a = Owner THEN INITIAL_SUPPLY - staked
                           ELSE IF a = This THEN staked ELSE 0]
        /\ totalSupply = INITIAL_SUPPLY
        /\ stakedAmount = [a \in Holders |-> IF a = Owner THEN staked ELSE 0]
        /\ stakingStartTime = [a \in Holders |-> 0]
        /\ totalStaked = staked
        /\ rewardRate = rate
        /\ paused = FALSE
        /\ tokenOwner = Owner
        /\ allowance = NoAllowance
        /\ now = 0
        /\ last = [op |-> "updateRewardRate", sender |-> Owner, to |-> Owner,
                   amount |-> rate, err |-> "ok", minted |-> 0]
        /\ calls = 0
        /\ RegistryDeployed
        /\ AccrualInit

GetStakingInfo ==
    \E user \in Callers :
        /\ last' = [op |-> "getStakingInfo", sender |-> user, to |-> user,
                    amount |-> getStakingInfo(Storage, now, user).rewards,
                    err |-> "ok", minted |-> 0]
        /\ UNCHANGED <<ledger, now, calls, registry, accrual>>

Elapse ==
    \E t \in ElapsedInputs :
        /\ t > now
        /\ now' = t
        /\ UNCHANGED <<ledger, last, calls, registry, accrual>>

NextRewards ==
    \/ GetStakingInfo
    \/ Elapse

SpecRewards == InitRewards /\ [][NextRewards]_vars

----------------------------------------------------------------------------
(* One staker's history.  Only stake, unstake and claimRewards are called  *)
(* and rewardRate keeps its initial value.  rewardsPaid[a] adds up what    *)
(* the calls have minted to a; rewardsAccrued[a] adds up, over the time    *)
(* that passes, stakedAmount[a] * rewardRate * days.                       *)

StakerAmountInputs == {0, 500, 1000}

StakerCall(op, sender, to, amount, r) ==
    /\ LedgerCall(op, sender, to, amount, r)
    /\ rewardsPaid' = [rewardsPaid EXCEPT ![sender] = @ + last'.minted]
    /\ UNCHANGED <<rewardsAccrued, registry>>

StakerStake ==
    \E sender \in Callers, amount \in StakerAmountInputs :
        StakerCall("stake", sender, This, amount, stake(Storage, now, sender, amount))

StakerUnstake ==
    \E sender \in Callers, amount \in StakerAmountInputs :
        StakerCall("unstake", sender, sender, amount, unstake(Storage, now, sender, amount))

StakerClaimRewards ==
    \E sender \in Callers :
        StakerCall("claimRewards", sender, sender, 0, claimRewards(Storage, now, sender))

StakerTick ==
    \E dt \in TimeSteps :
        /\ now + dt <= MaxTime
        /\ now' = now + dt
        /\ rewardsAccrued' =
               [a \in Callers |->
                   rewardsAccrued[a] + stakedAmount[a] * rewardRate * dt]
        /\ UNCHANGED <<ledger, last, calls, registry, rewardsPaid>>

NextStaker ==
    \/ StakerStake
    \/ StakerUnstake
    \/ StakerClaimRewards
    \/ StakerTick

SpecStaker == Init /\ [][NextStaker]_vars

----------------------------------------------------------------------------
(* The identity registry.  Any address may call any function with any     *)
(* argument; `last` records a committed call with its arguments and a     *)
(* reverted one with its revert reason.  A block passes between calls at  *)
(* most once, so that records carry two different timestamps.             *)

RegistryOutcome(r) == IF r.err = "ok" THEN r ELSE [Registry EXCEPT !.err = r.err]

RegistryCall(op, sender, user, hash, isValid, r) ==
    LET out == RegistryOutcome(r)
    IN  /\ identities' = out.identities
        /\ verifications' = out.verifications
        /\ identityHashToAddress' = out.identityHashToAddress
        /\ authorizedVerifiers' = out.authorizedVerifiers
        /\ registryOwner' = out.owner
        /\ IF out.err = "ok"
           THEN /\ calls < MaxIdCalls
                /\ calls' = calls + 1
                /\ last' = [op |-> op, sender |-> sender, user |-> user,
                            hash |-> hash, isValid |-> isValid, err |-> "ok",
                            log |-> out.log]
           ELSE /\ calls' = calls
                /\ last' = [op |-> op, sender |-> Unrecorded, user |-> Unrecorded,
                            hash |-> ZERO_HASH, isValid |-> FALSE, err |-> out.err,
                            log |-> << >>]
        /\ UNCHANGED <<ledger, now, accrual>>

InitIdentity ==
    /\ RegistryDeployed
    /\ now = 0
    /\ last = [op |-> "constructor", sender |-> Owner, user |-> Owner,
               hash |-> ZERO_HASH, isValid |-> FALSE, err |-> "ok",
               log |-> <<VerifierAuthorized(Owner)>>]
    /\ calls = 0
    /\ TokenDeployed
    /\ AccrualInit

RegisterIdentity ==
    \E sender \in IdCallers, hash \in HashInputs, metadata \in RegisterMetadataInputs :
        RegistryCall("registerIdentity", sender, sender, hash, FALSE,
                     registerIdentity(Registry, now, sender, hash, metadata))

VerifyIdentity ==
    \E sender \in IdCallers, user \in IdCallers,
       isValid \in BOOLEAN, reason \in ReasonInputs :
        RegistryCall("verifyIdentity", sender, user, ZERO_HASH, isValid,
                     verifyIdentity(Registry, now, sender, user, isValid, reason))

RevokeIdentity ==
    \E sender \in IdCallers, user \in IdCallers :
        RegistryCall("revokeIdentity", sender, user, ZERO_HASH, FALSE,
                     revokeIdentity(Registry, sender, user))

UpdateMetadata ==
    \E sender \in IdCallers, metadata \in MetadataInputs :
        RegistryCall("updateMetadata", sender, sender, ZERO_HASH, FALSE,
                     updateMetadata(Registry, sender, metadata))

AuthorizeVerifier ==
    \E sender \in IdCallers, verifier \in VerifierInputs :
        RegistryCall("authorizeVerifier", sender, verifier, ZERO_HASH, FALSE,
                     authorizeVerifier(Registry, sender, verifier))

RevokeVerifier ==
    \E sender \in IdCallers, verifier \in VerifierInputs :
        RegistryCall("revokeVerifier", sender, verifier, ZERO_HASH, FALSE,
                     revokeVerifier(Registry, sender, verifier))

RegistryTick ==
    \E dt \in TimeSteps :
        /\ now + dt <= MaxIdTime
        /\ now' = now + dt
        /\ UNCHANGED <<ledger, last, calls, registry, accrual>>

TransferOwnership ==
    \E sender \in IdCallers, newOwner \in VerifierInputs :
        RegistryCall("transferOwnership", sender, newOwner, ZERO_HASH, FALSE,
                     transferOwnership(Registry, sender, newOwner))

RenounceOwnership ==
    \E sender \in IdCallers :
        RegistryCall("renounceOwnership", sender, ZERO, ZERO_HASH, FALSE,
                     renounceOwnership(Registry, sender))

NextIdentity ==
    \/ RegisterIdentity
    \/ VerifyIdentity
    \/ RevokeIdentity
    \/ UpdateMetadata
    \/ AuthorizeVerifier
    \/ RevokeVerifier
    \/ TransferOwnership
    \/ RenounceOwnership
    \/ RegistryTick

SpecIdentity == InitIdentity /\ [][NextIdentity]_vars

----------------------------------------------------------------------------
(* Both contracts side by side.  The token inherits Ownable unchanged as   *)
(* well, so here its owner too can hand the ownership over or give it up.  *)
(* The contracts share no storage and never call each other, so a run of   *)
(* the pair is an interleaving of a run of each and a step of one contract *)
(* does not depend on the state of the other: the token is called while    *)
(* the registry is as deployed, and the registry while the token is as     *)
(* deployed.  MaxPlatformCalls bounds the calls that commit.               *)

MaxPlatformCalls == 2

TokenTransferOwnership ==
    \E c \in Callers, newOwner \in Recipients \ {This} :
        Call("transferOwnership", c, newOwner, 0,
             transferOwnership(Storage, c, newOwner))

TokenRenounceOwnership ==
    \E c \in Callers :
        Call("renounceOwnership", c, ZERO, 0, renounceOwnership(Storage, c))

NextPlatform ==
    /\ \/ RegistryDeployed /\ Next
       \/ RegistryDeployed /\ TokenTransferOwnership
       \/ RegistryDeployed /\ TokenRenounceOwnership
       \/ TokenDeployed /\ NextIdentity
    /\ calls' <= MaxPlatformCalls

SpecPlatform == Init /\ [][NextPlatform]_vars

-----------------------------------------------------------------------------
(* The token with the allowance functions it inherits: approve,           *)
(* transferFrom and burnFrom next to the calls of Next.  `last` records    *)
(* the spender as sender and the recipient as to.  All calls are made in   *)
(* the block of the deployment, so the reward a call settles is 0.         *)

MaxAllowanceCalls == 2
ApproveInputs == {0, 500, MAX_UINT256}
SpenderInputs == Callers \cup {ZERO}

Approve ==
    \E c \in Callers, spender \in SpenderInputs, value \in ApproveInputs :
        Call("approve", c, spender, value, approve(Storage, c, spender, value))

TransferFrom ==
    \E c \in Callers, from \in Callers, to \in Recipients, value \in AmountInputs :
        Call("transferFrom", c, to, value, transferFrom(Storage, c, from, to, value))

BurnFrom ==
    \E c \in Callers, account \in Callers, value \in AmountInputs :
        Call("burnFrom", c, ZERO, value, burnFrom(Storage, c, account, value))

NextAllowance ==
    /\ \/ Stake
       \/ Unstake
       \/ ClaimRewards
       \/ UpdateRewardRate
       \/ Pause
       \/ Unpause
       \/ Mint
       \/ Transfer
       \/ Burn
       \/ Approve
       \/ TransferFrom
       \/ BurnFrom
    /\ calls' <= MaxAllowanceCalls

SpecAllowance == Init /\ [][NextAllowance]_vars

----------------------------------------------------------------------------
(* Helpers for stating the properties *)

RECURSIVE SumOver(_, _)
SumOver(f, S) ==
    IF S = {} THEN 0
    ELSE LET a == CHOOSE x \in S : TRUE
         IN  f[a] + SumOver(f, S \ {a})

\* The step is a call that committed.
Committed == calls' = calls + 1

\* The step is a call to op that committed.
CommittedOp(op) == Committed /\ last'.op = op

\* The step is a call, committed or reverted (a repeated identical revert
\* is a stuttering step and needs no treatment).
CallStep == Committed \/ last' # last

----------------------------------------------------------------------------
(* Supply cap *)

\* C1: in every reachable state totalSupply <= MAX_SUPPLY, whatever sequence
\* of mint, burn, transfer, stake, unstake, claimRewards, updateRewardRate
\* and passage of time has run, reward mints included.
C1_SupplyNeverExceedsCap == totalSupply <= MAX_SUPPLY

\* C2 as stated: mint by the owner fails with "Exceeds max supply" when
\* totalSupply + amount > MAX_SUPPLY and otherwise credits `to` and
\* totalSupply with exactly amount.
C2_MintAsStated ==
    \A to \in Holders, amount \in MintInputs :
        LET out == Outcome(mint(Storage, Owner, to, amount))
        IN  IF totalSupply + amount > MAX_SUPPLY
            THEN /\ out.err = "Exceeds max supply"
                 /\ out.balanceOf = balanceOf
                 /\ out.totalSupply = totalSupply
            ELSE /\ out.err = "ok"
                 /\ out.balanceOf = [balanceOf EXCEPT ![to] = @ + amount]
                 /\ out.totalSupply = totalSupply + amount

C2_MintOutcome ==
    \A to \in Holders, amount \in MintInputs :
        LET out == Outcome(mint(Storage, Owner, to, amount))
        IN  IF totalSupply + amount > MAX_SUPPLY
            THEN /\ out.err = "Exceeds max supply"
                 /\ out.balanceOf = balanceOf
                 /\ out.totalSupply = totalSupply
            ELSE IF paused
            THEN /\ out.err = "EnforcedPause"
                 /\ out.balanceOf = balanceOf
                 /\ out.totalSupply = totalSupply
            ELSE /\ out.err = "ok"
                 /\ out.balanceOf = [balanceOf EXCEPT ![to] = @ + amount]
                 /\ out.totalSupply = totalSupply + amount

C2_MintStep ==
    /\ CommittedOp("mint") =>
           /\ totalSupply' = totalSupply + last'.amount
           /\ totalSupply' <= MAX_SUPPLY
           /\ balanceOf' = [balanceOf EXCEPT ![last'.to] = @ + last'.amount]
    /\ (last'.op = "mint" /\ last'.err # "ok") =>
           UNCHANGED <<balanceOf, totalSupply>>

\* C2 (amended): mint(to, amount) by the owner with totalSupply + amount >
\* MAX_SUPPLY fails with "Exceeds max supply" and changes no balance and not
\* totalSupply; with totalSupply + amount <= MAX_SUPPLY it fails with
\* EnforcedPause and changes nothing while the token is paused, and
\* otherwise adds exactly amount to the balance of `to` and to totalSupply;
\* no mint call leaves totalSupply above MAX_SUPPLY.
C2_Mint == [](C2_MintOutcome) /\ [][C2_MintStep]_vars

\* The owner's mint is refused at the cap, which an earlier mint reached.
C2_Witness ==
    /\ last.op = "mint" /\ last.err = "Exceeds max supply"
    /\ totalSupply = MAX_SUPPLY
    /\ balanceOf[Owner] > INITIAL_SUPPLY

----------------------------------------------------------------------------
(* Conservation *)

SumOfBalances == SumOver(balanceOf, Holders)

\* C3 as stated: a transfer, stake or unstake step, with any time passing
\* between the steps, leaves the sum of all balances (the pool's included)
\* and totalSupply at their values before the step.
C3_ConservedAsStated ==
    [][(Committed /\ last'.op \in {"transfer", "stake", "unstake"}) =>
           /\ SumOfBalances' = SumOfBalances
           /\ totalSupply' = totalSupply]_vars

C3_Step ==
    /\ SumOfBalances = totalSupply => SumOfBalances' = totalSupply'
    /\ CommittedOp("transfer") => totalSupply' = totalSupply
    /\ (Committed /\ last'.op \in {"stake", "unstake"}) =>
           /\ last'.minted = calculateRewards(Storage, now, last'.sender)
           /\ totalSupply' = totalSupply + last'.minted
           /\ balanceOf'[last'.sender] + balanceOf'[This]
                  = balanceOf[last'.sender] + balanceOf[This] + last'.minted

\* C3 (amended): the sum of all balances, the pool's included, equals
\* totalSupply in every state; a transfer leaves it unchanged, and a stake
\* or unstake raises it by exactly the caller's pending reward
\* calculateRewards(caller) that the call settles, so it stays constant
\* over transfer, stake and unstake only while those calls find no pending
\* reward (no time has passed since the caller's checkpoint, or the rate or
\* the stake is too small for the floor to reach 1).
C3_Conserved == [](SumOfBalances = totalSupply) /\ [][C3_Step]_vars

\* An unstake has settled a reward, so the sum has grown by it.
C3_Witness ==
    /\ last.op = "unstake" /\ last.err = "ok" /\ last.minted > 0
    /\ SumOfBalances = totalSupply

----------------------------------------------------------------------------
(* Staking totals *)

SumOfStakes == SumOver(stakedAmount, Holders)

C4_Step ==
    /\ (stakedAmount' # stakedAmount \/ totalStaked' # totalStaked) =>
           /\ Committed
           /\ last'.op \in {"stake", "unstake"}
           /\ \A a \in Holders \ {last'.sender} :
                  stakedAmount'[a] = stakedAmount[a]
           /\ totalStaked' - totalStaked
                  = stakedAmount'[last'.sender] - stakedAmount[last'.sender]
    /\ CommittedOp("stake") =>
           stakedAmount'[last'.sender] = stakedAmount[last'.sender] + last'.amount
    /\ CommittedOp("unstake") =>
           stakedAmount'[last'.sender] = stakedAmount[last'.sender] - last'.amount

\* C4: totalStaked equals the sum of stakedAmount over all addresses in
\* every reachable state; only stake and unstake change either side, and
\* they change the caller's stakedAmount and totalStaked by the same amount.
C4_TotalStaked == [](totalStaked = SumOfStakes) /\ [][C4_Step]_vars

\* Two stakers hold stakes, the second of them through the last call.
C4_Witness ==
    /\ last.op = "stake" /\ last.err = "ok"
    /\ \A c \in Callers : stakedAmount[c] > 0
    /\ totalStaked = SumOfStakes

----------------------------------------------------------------------------
(* Pool balance *)

\* C5 as stated: the pool account's balance equals totalStaked in every
\* reachable state, transfers and mints to the pool address included.
C5_PoolEqualsStakedAsStated == balanceOf[This] = totalStaked

PoolSurplus == balanceOf[This] - totalStaked

C5_Step ==
    PoolSurplus' - PoolSurplus =
        IF Committed /\ last'.op \in {"transfer", "mint"} /\ last'.to = This
        THEN last'.amount
        ELSE 0

\* C5 (amended): the pool account's balance is never below totalStaked; it
\* exceeds totalStaked by exactly the amounts that transfers and mints have
\* sent to the pool address, and equals totalStaked as long as no transfer
\* or mint names the pool address as recipient.  stake, unstake, burn and
\* claimRewards leave the difference unchanged.
C5_PoolCoversStaked == [](PoolSurplus >= 0) /\ [][C5_Step]_vars

\* Tokens were transferred to the pool address while stakes are held.
C5_Witness ==
    /\ last.op = "transfer" /\ last.err = "ok" /\ last.to = This
    /\ last.amount > 0
    /\ totalStaked > 0
    /\ balanceOf[This] > totalStaked

----------------------------------------------------------------------------
(* Pausing *)

BalanceState == <<balanceOf, stakedAmount, stakingStartTime, totalStaked, totalSupply>>

PausableOps == {"transfer", "burn", "stake", "unstake", "claimRewards"}

C6_AllFail ==
    \A c \in Callers :
        /\ claimRewards(Storage, now, c).err # "ok"
        /\ \A amount \in AmountInputs :
               /\ stake(Storage, now, c, amount).err # "ok"
               /\ unstake(Storage, now, c, amount).err # "ok"
               /\ burn(Storage, c, amount).err # "ok"
               /\ \A to \in Recipients :
                      transfer(Storage, c, to, amount).err # "ok"

C6_Step ==
    (paused /\ CallStep /\ last'.op \in PausableOps) =>
        /\ last'.err # "ok"
        /\ UNCHANGED BalanceState

\* C6: in every state where paused is true, transfer, burn, stake, unstake
\* and claimRewards fail for every caller and every argument, and such a
\* call changes no balance, stakedAmount, stakingStartTime, totalStaked or
\* totalSupply.
C6_PauseEnforced == [](paused => C6_AllFail) /\ [][C6_Step]_vars

\* A staker's unstake was refused because the token is paused.
C6_Witness ==
    /\ paused
    /\ last.op = "unstake" /\ last.err = "EnforcedPause"
    /\ totalStaked > 0

\* C7 as stated: while paused, mint(to, amount) by the owner with
\* totalSupply + amount <= MAX_SUPPLY succeeds and credits `to` with amount.
C7_MintWhilePausedAsStated ==
    paused =>
        \A to \in Holders, amount \in MintInputs :
            totalSupply + amount <= MAX_SUPPLY =>
                LET out == Outcome(mint(Storage, Owner, to, amount))
                IN  /\ out.err = "ok"
                    /\ out.balanceOf[to] = balanceOf[to] + amount

C7_MintRefused ==
    paused =>
        \A to \in Holders, amount \in MintInputs :
            totalSupply + amount <= MAX_SUPPLY =>
                LET out == Outcome(mint(Storage, Owner, to, amount))
                IN  /\ out.err = "EnforcedPause"
                    /\ out.balanceOf = balanceOf
                    /\ out.totalSupply = totalSupply

C7_Step ==
    (paused /\ CallStep /\ last'.op = "mint") =>
        /\ last'.err # "ok"
        /\ UNCHANGED BalanceState

\* C7 (amended): pausing blocks minting by the owner too: in a state where
\* paused is true, mint(to, amount) called by the owner with
\* totalSupply + amount <= MAX_SUPPLY fails with EnforcedPause and credits
\* nothing to `to`; no mint call made while paused changes a balance or
\* totalSupply.
C7_MintBlockedWhilePaused == [](C7_MintRefused) /\ [][C7_Step]_vars

\* The owner's mint, within the cap, was refused because of the pause.
C7_Witness ==
    /\ paused
    /\ last.op = "mint" /\ last.err = "EnforcedPause"
    /\ totalSupply < MAX_SUPPLY

----------------------------------------------------------------------------
(* Rewards *)

\* q is the floor of num / den, stated without division.
IsFloorOf(q, num, den) == q * den <= num /\ num < (q + 1) * den

C8_Formula ==
    \A a \in Callers :
        LET r == getStakingInfo(Storage, now, a).rewards
        IN  /\ IsFloorOf(r, stakedAmount[a] * rewardRate * (now - stakingStartTime[a]),
                         365 * 10000)
            /\ stakedAmount[a] = 0 => r = 0

C8_Example ==
    (/\ stakedAmount[Owner] = 1000
     /\ rewardRate = 500
     /\ now - stakingStartTime[Owner] = 365)
        => calculateRewards(Storage, now, Owner) = 50

\* C8: calculateRewards(a) is the floor of stakedAmount[a] * rewardRate *
\* elapsed / (one year * 10000) for every address, every rate in 0..1000
\* and every elapsed time, and 0 when stakedAmount[a] = 0; 1000 staked at
\* rate 500 for exactly one year yields exactly 50.  (Time in days: one
\* year is 365 where the claim counts 31536000 seconds.)
C8_RewardFormula == C8_Formula /\ C8_Example

\* getStakingInfo has reported 50 for 1000 staked at rate 500 for a year.
C8_Witness ==
    /\ last.op = "getStakingInfo" /\ last.sender = Owner /\ last.amount = 50
    /\ stakedAmount[Owner] = 1000
    /\ rewardRate = 500
    /\ now - stakingStartTime[Owner] = 365

\* C9: immediately after a successful unstake(amount) by address a, a
\* partial unstake included, calculateRewards(a) is 0.
C9_SettledAfterUnstake ==
    [][CommittedOp("unstake") =>
           calculateRewards(Storage', now', last'.sender) = 0]_vars

C10_Step ==
    (Committed /\ last'.op \in {"stake", "claimRewards"}) =>
        /\ stakingStartTime'[last'.sender] = now'
        /\ calculateRewards(Storage', now', last'.sender) = 0
        /\ last'.op = "claimRewards" =>
               /\ last'.minted = calculateRewards(Storage, now, last'.sender)
               /\ last'.minted > 0

\* C10: immediately after a successful claimRewards() or stake(amount) by
\* address a, stakingStartTime[a] is the current time and
\* calculateRewards(a) is 0.
C10_CheckpointAfterClaimOrStake == [][C10_Step]_vars

\* A claim has just paid a reward and the claimant still holds the stake.
C10_Witness ==
    /\ last.op = "claimRewards" /\ last.err = "ok" /\ last.minted > 0
    /\ stakedAmount[last.sender] > 0
    /\ stakingStartTime[last.sender] = now
    /\ now > 0

\* C11: with rewardRate fixed, the rewards minted to an address by its
\* stake, unstake and claimRewards calls never exceed the sum, over the
\* time that passed, of stakedAmount * rewardRate * days / (365 * 10000):
\* no period is paid twice on the same staked tokens.
C11_NoDoubleCounting ==
    \A a \in Callers :
        rewardsPaid[a] * (DAYS_365 * BASIS_POINTS) <= rewardsAccrued[a]

C12_Step ==
    \A a \in Callers :
        (/\ stakedAmount'[a] = stakedAmount[a]
         /\ rewardRate' = rewardRate
         /\ stakingStartTime'[a] = stakingStartTime[a]
         /\ now <= now')
            => calculateRewards(Storage, now, a) <= calculateRewards(Storage', now', a)

\* C12: for fixed stakedAmount[a], rewardRate and stakingStartTime[a],
\* calculateRewards(a) is non-decreasing as the current time advances.
C12_RewardsNonDecreasing == [][C12_Step]_vars

\* getStakingInfo reported a positive reward, time has advanced since and
\* the reward is now larger than the one reported.
C12_Witness ==
    /\ last.op = "getStakingInfo" /\ last.sender = Owner /\ last.amount > 0
    /\ stakedAmount[Owner] > 0
    /\ calculateRewards(Storage, now, Owner) > last.amount

\* The storage a call leaves when it is made in storage s: r if it
\* returned, s if it reverted; the next call starts from it.
After(s, r) ==
    IF r.err = "ok" THEN [r EXCEPT !.minted = 0]
    ELSE [s EXCEPT !.err = "ok", !.minted = 0]

C13_Amounts(a) == {x \in {1, 499, 500, balanceOf[a]} : 0 < x /\ x <= balanceOf[a]}

C13_RoundTrip(a, x) ==
    LET staked   == stake(Storage, now, a, x)
        s1       == After(Storage, staked)
        unstaked == unstake(s1, now, a, x)
        s2       == After(s1, unstaked)
    IN  /\ ~paused => (staked.err = "ok" /\ unstaked.err = "ok")
        /\ ~paused => /\ s1.stakedAmount[a] = stakedAmount[a] + x
                      /\ s1.balanceOf[a] = balanceOf[a] - x
        /\ unstaked.minted = 0
        /\ s2.balanceOf[a] = balanceOf[a]
        /\ s2.stakedAmount[a] = stakedAmount[a]
        /\ s2.balanceOf[This] = balanceOf[This]
        /\ s2.totalStaked = totalStaked
        /\ s2.totalSupply = totalSupply

\* C13: for an address a with no pending reward and any x with
\* 0 < x <= balanceOf[a], stake(x) followed by unstake(x) at the same instant
\* restores balanceOf[a], stakedAmount[a], the pool balance, totalStaked and
\* totalSupply to their values before the stake.
C13_StakeUnstakeRestores ==
    \A a \in Callers :
        calculateRewards(Storage, now, a) = 0 =>
            \A x \in C13_Amounts(a) : C13_RoundTrip(a, x)

\* The owner staked 500 and unstaked 500 in the same instant, no reward was
\* due, and the ledger is as it was before the stake.
C13_Witness ==
    /\ last.op = "unstake" /\ last.err = "ok" /\ last.sender = Owner
    /\ last.amount = 500 /\ last.minted = 0
    /\ calls = 2
    /\ stakingStartTime[Owner] = now
    /\ stakedAmount[Owner] = 0 /\ totalStaked = 0
    /\ balanceOf[Owner] = INITIAL_SUPPLY /\ balanceOf[This] = 0
    /\ totalSupply = INITIAL_SUPPLY

\* C14: in every reachable state of the registry no two different
\* addresses hold active identities with the same identityHash, whatever
\* registerIdentity, verifyIdentity, revokeIdentity and updateMetadata calls
\* (re-registration after revocation included) have been made.
C14_IdentityUniqueness ==
    \A a, b \in IdCallers :
        (/\ a # b
         /\ identities[a].isActive
         /\ identities[b].isActive)
            => identities[a].identityHash # identities[b].identityHash

\* The owner registered hash 1 and was revoked, alice then registered
\* hash 1, and the owner has just registered again with hash 2: both
\* identities are active.
C14_Witness ==
    /\ last.op = "registerIdentity" /\ last.err = "ok" /\ last.sender = Owner
    /\ calls = 4
    /\ identities[Owner].isActive /\ identities[Owner].identityHash = 2
    /\ identities["alice"].isActive /\ identities["alice"].identityHash = 1
    /\ identityHashToAddress[1] = "alice"

\* An address whose identity has been revoked: it was registered, so its
\* record keeps a hash, and revokeIdentity is the only code that clears
\* isActive.
Revoked(u) == identities[u].identityHash # ZERO_HASH /\ ~identities[u].isActive

\* As stated: once revoked, never active again.
C15_TerminalAsStated ==
    [][\A u \in IdCallers : Revoked(u) => ~identities'[u].isActive]_vars

C15_CanRegisterAgain ==
    \A u \in IdCallers :
        Revoked(u) =>
            \A h \in HashInputs, m \in MetadataInputs :
                registerIdentity(Registry, now, u, h, m).err =
                    IF h = ZERO_HASH THEN "Invalid identity hash"
                    ELSE IF identityHashToAddress[h] # ZERO
                         THEN "Identity hash already used"
                         ELSE "ok"

C15_Step ==
    \A u \in IdCallers :
        (Revoked(u) /\ identities'[u].isActive) =>
            /\ CommittedOp("registerIdentity")
            /\ last'.sender = u
            /\ identities'[u].identityHash = last'.hash
            /\ identities'[u].createdAt = now
            /\ ~identities'[u].isVerified
            /\ identityHashToAddress'[last'.hash] = u

\* C15 (amended): after revokeIdentity(user) has succeeded,
\* identities[user].isActive stays false until user itself registers again:
\* no other call, by the owner or anyone else, makes it true (there is no
\* un-revoke).  A registerIdentity by the revoked address with a nonzero
\* hash that is bound to no address succeeds and creates a new active,
\* unverified identity.
C15_RevokedUntilReregistered == []C15_CanRegisterAgain /\ [][C15_Step]_vars

\* alice had been verified and was revoked, and has just registered again:
\* her identity is active and unverified, her history keeps the record.
C15_Witness ==
    /\ last.op = "registerIdentity" /\ last.err = "ok" /\ last.sender = "alice"
    /\ identities["alice"].isActive /\ ~identities["alice"].isVerified
    /\ Len(verifications["alice"]) = 1
    /\ verifications["alice"][1].isValid

\* A hash whose identity has been revoked.
Freed(h) == \E u \in IdCallers : Revoked(u) /\ identities[u].identityHash = h

NonzeroHashes == HashInputs \ {ZERO_HASH}

\* As stated: a freed hash is refused with "Identity hash already used".
C16_FreedHashRefusedAsStated ==
    \A h \in NonzeroHashes, c \in IdCallers, m \in MetadataInputs :
        (Freed(h) /\ ~identities[c].isActive) =>
            registerIdentity(Registry, now, c, h, m).err = "Identity hash already used"

C16_RefusedOnlyWhileBound ==
    \A h \in NonzeroHashes, c \in IdCallers, m \in MetadataInputs :
        ~identities[c].isActive =>
            registerIdentity(Registry, now, c, h, m).err =
                IF identityHashToAddress[h] = ZERO THEN "ok"
                ELSE "Identity hash already used"

C16_Step ==
    CommittedOp("revokeIdentity") =>
        LET h == identities[last'.user].identityHash
        IN  /\ identityHashToAddress[h] = last'.user
            /\ identityHashToAddress'[h] = ZERO
            /\ \A c \in IdCallers, m \in MetadataInputs :
                   ~identities'[c].isActive =>
                       registerIdentity(Registry', now', c, h, m).err = "ok"

\* C16 (amended): a hash freed by revocation is reusable.  revokeIdentity
\* on an identity whose identityHash is H clears identityHashToAddress[H],
\* and from then on registerIdentity(H, metadata) by any address without an
\* active identity, the revoked address included, succeeds; it fails with
\* "Identity hash already used" only while H is bound to an address again.
C16_FreedHashReusable == []C16_RefusedOnlyWhileBound /\ [][C16_Step]_vars

\* The owner's identity with hash 1 was revoked and alice has just
\* registered hash 1.
C16_Witness ==
    /\ last.op = "registerIdentity" /\ last.err = "ok"
    /\ last.sender = "alice" /\ last.hash = 1
    /\ Revoked(Owner) /\ identities[Owner].identityHash = 1
    /\ identities["alice"].isActive /\ identities["alice"].identityHash = 1
    /\ identityHashToAddress[1] = "alice"

C17_Refused ==
    \A sender \in IdCallers :
        ~authorizedVerifiers[sender] =>
            \A user \in IdCallers, isValid \in BOOLEAN, reason \in ReasonInputs :
                LET r == verifyIdentity(Registry, now, sender, user, isValid, reason)
                IN  /\ r.err = "Not authorized verifier"
                    /\ RegistryOutcome(r).identities = identities
                    /\ RegistryOutcome(r).verifications = verifications

C17_Step ==
    (last'.op = "verifyIdentity" /\ last'.err = "Not authorized verifier") =>
        UNCHANGED registry

\* C17: verifyIdentity(user, isValid, reason) by an address that is not in
\* the authorized-verifier set fails with "Not authorized verifier" for
\* every user (registered, unregistered, verified or revoked) and every
\* outcome, and changes neither identities[user].isVerified nor the
\* verification history.
C17_VerifierGate == []C17_Refused /\ [][C17_Step]_vars

\* alice is not a verifier and has just been refused while the owner's
\* identity is active and waits for verification.
C17_Witness ==
    /\ last.op = "verifyIdentity" /\ last.err = "Not authorized verifier"
    /\ ~authorizedVerifiers["alice"]
    /\ registryOwner = Owner /\ authorizedVerifiers[Owner]
    /\ identities[Owner].isActive /\ ~identities[Owner].isVerified
    /\ verifications[Owner] = << >>

\* C18: in every reachable state revokeVerifier(owner) fails with
\* "Cannot revoke owner", not with "Verifier not authorized" or any other
\* error, and leaves the owner in the authorized-verifier set.
C18_OwnerIrrevocable ==
    registryOwner \in IdCallers =>
        LET r == revokeVerifier(Registry, registryOwner, registryOwner)
        IN  /\ r.err = "Cannot revoke owner"
            /\ RegistryOutcome(r).authorizedVerifiers[registryOwner]

C19_AlreadyVerified ==
    \A b \in IdCallers :
        (identities[b].isActive /\ identities[b].isVerified) =>
            /\ hasVerifiedIdentity(Registry, b)
            /\ \A v \in IdCallers, isValid \in BOOLEAN, reason \in ReasonInputs :
                   authorizedVerifiers[v] =>
                       LET r == verifyIdentity(Registry, now, v, b, isValid, reason)
                       IN  /\ r.err = "Identity already verified"
                           /\ RegistryOutcome(r).verifications = verifications
                           /\ RegistryOutcome(r).identities = identities

C19_Step ==
    /\ (CommittedOp("verifyIdentity") /\ last'.isValid) =>
           /\ authorizedVerifiers[last'.sender]
           /\ identities[last'.user].isActive
           /\ ~identities[last'.user].isVerified
           /\ hasVerifiedIdentity(Registry', last'.user)
    /\ \A b \in IdCallers :
           (/\ identities[b].isActive /\ identities[b].isVerified
            /\ identities'[b].isActive)
               => /\ identities'[b].isVerified
                  /\ verifications'[b] = verifications[b]

\* C19: after an authorized verifier's verifyIdentity(B, true, reason) has
\* succeeded on B's active unverified identity, hasVerifiedIdentity(B) is
\* true, and as long as B's identity stays active every further
\* verifyIdentity(B, ...) by any authorized verifier, with either outcome,
\* fails with "Identity already verified" and appends no record.
C19_VerifiedOnce == []C19_AlreadyVerified /\ [][C19_Step]_vars

\* alice's identity was verified and a second verification has just been
\* refused; her history holds the one record.
C19_Witness ==
    /\ last.op = "verifyIdentity" /\ last.err = "Identity already verified"
    /\ hasVerifiedIdentity(Registry, "alice")
    /\ Len(verifications["alice"]) = 1
    /\ verifications["alice"][1].isValid

C20_Expected(c, h) ==
    IF h = ZERO_HASH THEN "Invalid identity hash"
    ELSE IF identities[c].isActive THEN "Identity already exists"
    ELSE IF identityHashToAddress[h] # ZERO THEN "Identity hash already used"
    ELSE "ok"

C20_Outcome ==
    \A c \in IdCallers, h \in HashInputs, m \in MetadataInputs :
        LET r   == registerIdentity(Registry, now, c, h, m)
            out == RegistryOutcome(r)
        IN  /\ r.err = C20_Expected(c, h)
            /\ r.err = "Identity hash already used" =>
                   /\ ~out.identities[c].isActive
                   /\ out.identities = identities
                   /\ out.identityHashToAddress = identityHashToAddress
                   /\ identityHashToAddress[h] # c
            /\ r.err = "ok" =>
                   /\ out.identities[c] =
                          [identityHash |-> h, createdAt |-> now,
                           isVerified |-> FALSE, isActive |-> TRUE,
                           metadata |-> m]
                   /\ out.identityHashToAddress[h] = c
                   /\ \A a \in IdCallers \ {c} :
                          out.identities[a] = identities[a]
                   /\ \A g \in HashInputs \ {h} :
                          out.identityHashToAddress[g] = identityHashToAddress[g]

C20_Step ==
    /\ CommittedOp("registerIdentity") =>
           /\ C20_Expected(last'.sender, last'.hash) = "ok"
           /\ identities'[last'.sender].identityHash = last'.hash
           /\ identities'[last'.sender].isActive
           /\ ~identities'[last'.sender].isVerified
           /\ identityHashToAddress'[last'.hash] = last'.sender
    /\ (last'.op = "registerIdentity" /\ last'.err # "ok") => UNCHANGED registry

\* C20: registerIdentity(h, metadata) by caller C fails with "Invalid
\* identity hash" if h is zero, otherwise with "Identity already exists" if
\* C has an active identity, otherwise with "Identity hash already used" if
\* h is bound to an address, and then C has no active identity afterwards
\* and the binding of h is unchanged; otherwise it succeeds and creates
\* identities[C] with isVerified = false, isActive = true and
\* identityHashToAddress[h] = C.
C20_RegisterIdentity == []C20_Outcome /\ [][C20_Step]_vars

\* The owner holds hash 1 and alice, who has no identity, has just been
\* refused with that hash.
C20_Witness ==
    /\ last.op = "registerIdentity" /\ last.err = "Identity hash already used"
    /\ identities[Owner].isActive /\ identities[Owner].identityHash = 1
    /\ identityHashToAddress[1] = Owner
    /\ identities["alice"] = NoIdentity
    /\ identityHashToAddress[2] = ZERO

C21_Rates == {0, 1, 500, MAX_REWARD_RATE - 1, MAX_REWARD_RATE,
              MAX_REWARD_RATE + 1, 1500}

C21_ByOwner ==
    \A newRate \in C21_Rates :
        LET r == updateRewardRate(Storage, tokenOwner, newRate)
        IN  IF newRate > MAX_REWARD_RATE
            THEN /\ r.err = "Reward rate too high"
                 /\ Outcome(r).rewardRate = rewardRate
            ELSE /\ r.err = "ok"
                 /\ Outcome(r).rewardRate = newRate

C21_Step ==
    /\ CommittedOp("updateRewardRate") =>
           /\ last'.amount <= MAX_REWARD_RATE
           /\ rewardRate' = last'.amount
    /\ (last'.op = "updateRewardRate" /\ last'.err = "Reward rate too high") =>
           rewardRate' = rewardRate

\* C21: in every reachable state rewardRate is in 0..1000;
\* updateRewardRate(newRate) by the owner with newRate > 1000 fails with
\* "Reward rate too high" and leaves rewardRate at its prior value, and with
\* newRate <= 1000 sets rewardRate to newRate.
C21_RewardRateBounded ==
    /\ [](rewardRate \in 0..MAX_REWARD_RATE /\ C21_ByOwner)
    /\ [][C21_Step]_vars

\* The owner had set the rate to 500 and a rate above the limit has just
\* been refused.
C21_Witness ==
    /\ last.op = "updateRewardRate" /\ last.err = "Reward rate too high"
    /\ rewardRate = 500

\* C22: the reverse index is the exact inverse of the active identities:
\* for every nonzero hash h and address a, identityHashToAddress[h] = a if
\* and only if identities[a] is active with identityHash = h; register and
\* revoke update both sides in the same step.
C22_ReverseIndexExact ==
    \A h \in NonzeroHashes :
        /\ getAddressByIdentityHash(Registry, h) \in IdCallers \cup {ZERO}
        /\ \A a \in IdCallers :
               getAddressByIdentityHash(Registry, h) = a
                   <=> (identities[a].isActive /\ identities[a].identityHash = h)

\* The owner's identity has just been revoked and its hash is bound to no
\* address, while alice's identity is active and bound.
C22_Witness ==
    /\ last.op = "revokeIdentity" /\ last.err = "ok" /\ last.user = Owner
    /\ Revoked(Owner)
    /\ identityHashToAddress[identities[Owner].identityHash] = ZERO
    /\ identities["alice"].isActive
    /\ identityHashToAddress[identities["alice"].identityHash] = "alice"

C23_Amounts == AmountInputs \cup MintInputs \cup {1, INITIAL_SUPPLY + 1}

\* What each function of the token returns in the current state, for every
\* caller and argument.
C23_TokenResults ==
    {stake(Storage, now, c, a) : c \in Callers, a \in C23_Amounts}
    \cup {unstake(Storage, now, c, a) : c \in Callers, a \in C23_Amounts}
    \cup {claimRewards(Storage, now, c) : c \in Callers}
    \cup {updateRewardRate(Storage, c, n) : c \in Callers, n \in RateInputs}
    \cup {pause(Storage, c) : c \in Callers}
    \cup {unpause(Storage, c) : c \in Callers}
    \cup UNION {{mint(Storage, c, to, a) : c \in Callers, a \in C23_Amounts} :
                   to \in Recipients}
    \cup UNION {{transfer(Storage, c, to, a) : c \in Callers, a \in C23_Amounts} :
                   to \in Recipients}
    \cup {burn(Storage, c, a) : c \in Callers, a \in C23_Amounts}
    \cup {transferOwnership(Storage, c, o) : c \in Callers, o \in Recipients}
    \cup {renounceOwnership(Storage, c) : c \in Callers}

\* The same for the registry.
C23_RegistryResults ==
    UNION {{registerIdentity(Registry, now, c, h, m) :
                c \in IdCallers, h \in HashInputs} : m \in MetadataInputs}
    \cup UNION {UNION {{verifyIdentity(Registry, now, c, u, v, x) :
                           c \in IdCallers, u \in IdCallers} : v \in BOOLEAN} :
                   x \in ReasonInputs}
    \cup {revokeIdentity(Registry, c, u) : c \in IdCallers, u \in IdCallers}
    \cup {updateMetadata(Registry, c, m) : c \in IdCallers, m \in MetadataInputs}
    \cup {authorizeVerifier(Registry, c, v) : c \in IdCallers, v \in VerifierInputs}
    \cup {revokeVerifier(Registry, c, v) : c \in IdCallers, v \in VerifierInputs}
    \cup {transferOwnership(Registry, c, o) : c \in IdCallers, o \in VerifierInputs}
    \cup {renounceOwnership(Registry, c) : c \in IdCallers}

C23_FailedCallsRevert ==
    /\ \A r \in C23_TokenResults :
           r.err # "ok" =>
               LET out == Outcome(r)
               IN  /\ out.balanceOf = balanceOf
                   /\ out.totalSupply = totalSupply
                   /\ out.stakedAmount = stakedAmount
                   /\ out.stakingStartTime = stakingStartTime
                   /\ out.totalStaked = totalStaked
                   /\ out.rewardRate = rewardRate
                   /\ out.paused = paused
                   /\ out.owner = tokenOwner
    /\ \A r \in C23_RegistryResults :
           r.err # "ok" =>
               LET out == RegistryOutcome(r)
               IN  /\ out.identities = identities
                   /\ out.identityHashToAddress = identityHashToAddress
                   /\ out.authorizedVerifiers = authorizedVerifiers
                   /\ out.verifications = verifications
                   /\ out.owner = registryOwner

C23_Step == last'.err # "ok" => UNCHANGED <<ledger, registry>>

NotOwner == "OwnableUnauthorizedAccount"

\* What the owner-only functions return to caller c in the current state,
\* for every argument: those of the token, and those of the registry.
C24_TokenGated(c) ==
    UNION {{mint(Storage, c, to, a) : a \in C23_Amounts} : to \in Recipients}
    \cup {pause(Storage, c), unpause(Storage, c)}
    \cup {updateRewardRate(Storage, c, n) : n \in RateInputs}

C24_RegistryGated(c) ==
    {revokeIdentity(Registry, c, u) : u \in IdCallers}
    \cup {authorizeVerifier(Registry, c, v) : v \in VerifierInputs}
    \cup {revokeVerifier(Registry, c, v) : v \in VerifierInputs}

C24_Refused ==
    /\ \A c \in Callers :
           c # tokenOwner =>
               \A r \in C24_TokenGated(c) :
                   r.err = NotOwner /\ Outcome(r) = [Storage EXCEPT !.err = NotOwner]
    /\ \A c \in IdCallers :
           c # registryOwner =>
               \A r \in C24_RegistryGated(c) :
                   /\ r.err = NotOwner
                   /\ RegistryOutcome(r) = [Registry EXCEPT !.err = NotOwner]

C24_Step ==
    /\ (rewardRate' # rewardRate \/ paused' # paused) =>
           /\ Committed
           /\ last'.op \in {"updateRewardRate", "pause", "unpause"}
           /\ last'.sender = tokenOwner
    /\ authorizedVerifiers' # authorizedVerifiers =>
           /\ Committed
           /\ last'.op \in {"authorizeVerifier", "revokeVerifier"}
           /\ last'.sender = registryOwner
    /\ (Committed /\ last'.op \in {"mint", "pause", "unpause", "updateRewardRate"}) =>
           last'.sender = tokenOwner
    /\ (Committed /\ last'.op \in {"revokeIdentity", "authorizeVerifier",
                                   "revokeVerifier"}) =>
           last'.sender = registryOwner

\* C24: each of mint, pause, unpause, updateRewardRate, revokeIdentity,
\* authorizeVerifier and revokeVerifier, called by an address other than
\* the owner, fails with OwnableUnauthorizedAccount whatever its arguments
\* and changes no state; rewardRate, paused and the verifier set change
\* only in steps taken by the owner.
C24_OwnerOnly == []C24_Refused /\ [][C24_Step]_vars

\* The deployer handed the token over to alice, alice set the rate to 500,
\* and the deployer has just been refused.
C24_Witness ==
    /\ last.op = "updateRewardRate" /\ last.err = NotOwner
    /\ tokenOwner = "alice"
    /\ rewardRate = 500

C25_Amounts(c) == {0, 1, 500, balanceOf[c], balanceOf[c] + 1,
                   balanceOf[c] + calculateRewards(Storage, now, c)}

C25_Outcome ==
    \A c \in Callers :
        \A amount \in C25_Amounts(c) :
            LET r   == calculateRewards(Storage, now, c)
                res == stake(Storage, now, c, amount)
            IN  ~paused =>
                    /\ res.err = IF amount = 0 THEN "Amount must be greater than 0"
                                 ELSE IF balanceOf[c] < amount THEN "Insufficient balance"
                                 ELSE "ok"
                    /\ res.err = "ok" =>
                           /\ res.minted = r
                           /\ res.balanceOf[c] = balanceOf[c] + r - amount
                           /\ res.balanceOf[This] = balanceOf[This] + amount
                           /\ res.stakedAmount[c] = stakedAmount[c] + amount
                           /\ res.totalStaked = totalStaked + amount
                           /\ res.totalSupply = totalSupply + r
                           /\ res.stakingStartTime[c] = now

C25_Step ==
    CommittedOp("stake") =>
        LET c == last'.sender
            amount == last'.amount
            r == calculateRewards(Storage, now, c)
        IN  /\ ~paused /\ amount > 0 /\ balanceOf[c] >= amount
            /\ last'.minted = r
            /\ balanceOf'[c] = balanceOf[c] + r - amount
            /\ balanceOf'[This] = balanceOf[This] + amount
            /\ stakedAmount'[c] = stakedAmount[c] + amount
            /\ totalStaked' = totalStaked + amount
            /\ totalSupply' = totalSupply + r
            /\ stakingStartTime'[c] = now

\* C25: stake(amount) while unpaused succeeds exactly when amount > 0 and
\* the caller's balance before any reward settlement is >= amount ("Amount
\* must be greater than 0" for zero, "Insufficient balance" otherwise); on
\* success it mints the caller's pending reward r, then moves amount from
\* the caller to the pool: balanceOf[caller] changes by r - amount, the pool
\* balance, stakedAmount[caller] and totalStaked each grow by amount,
\* totalSupply grows by r, and stakingStartTime[caller] = now.
C25_Stake == []C25_Outcome /\ [][C25_Step]_vars

\* The owner has just added 500 to a stake that had earned a reward, and
\* the reward was minted in the same call.
C25_Witness ==
    /\ last.op = "stake" /\ last.err = "ok" /\ last.sender = Owner
    /\ last.amount = 500 /\ last.minted > 0
    /\ stakedAmount[Owner] = 1000
    /\ balanceOf[Owner] = last.minted
    /\ totalSupply = INITIAL_SUPPLY + last.minted
    /\ stakingStartTime[Owner] = now

C26_Amounts(c) == {0, 1, 500, stakedAmount[c], stakedAmount[c] + 1, totalStaked}

C26_Outcome ==
    \A c \in Callers :
        \A amount \in C26_Amounts(c) :
            LET r   == calculateRewards(Storage, now, c)
                res == unstake(Storage, now, c, amount)
            IN  ~paused =>
                    /\ res.err = IF amount = 0 THEN "Amount must be greater than 0"
                                 ELSE IF stakedAmount[c] < amount
                                      THEN "Insufficient staked amount"
                                 ELSE "ok"
                    /\ res.err = "ok" =>
                           /\ res.minted = r
                           /\ res.stakedAmount[c] = stakedAmount[c] - amount
                           /\ res.totalStaked = totalStaked - amount
                           /\ res.balanceOf[This] = balanceOf[This] - amount
                           /\ res.balanceOf[c] = balanceOf[c] + amount + r
                           /\ res.totalSupply = totalSupply + r

C26_Step ==
    CommittedOp("unstake") =>
        LET c == last'.sender
            amount == last'.amount
            r == calculateRewards(Storage, now, c)
        IN  /\ ~paused /\ amount > 0 /\ amount <= stakedAmount[c]
            /\ last'.minted = r
            /\ stakedAmount'[c] = stakedAmount[c] - amount
            /\ totalStaked' = totalStaked - amount
            /\ balanceOf'[This] = balanceOf[This] - amount
            /\ balanceOf'[c] = balanceOf[c] + amount + r
            /\ totalSupply' = totalSupply + r

\* C26: unstake(amount) while unpaused succeeds exactly when
\* 0 < amount <= stakedAmount[caller] ("Amount must be greater than 0" for
\* zero, "Insufficient staked amount" when amount exceeds the caller's
\* stake, even if the stakes of others make the pool large enough); on
\* success it mints the caller's pending reward r, decreases
\* stakedAmount[caller], totalStaked and the pool balance by amount and
\* increases balanceOf[caller] by amount + r.
C26_Unstake == []C26_Outcome /\ [][C26_Step]_vars

\* The pool holds the owner's 1000 and alice, who has staked nothing, has
\* just been refused.
C26_Witness ==
    /\ last.op = "unstake" /\ last.err = "Insufficient staked amount"
    /\ stakedAmount["alice"] = 0
    /\ stakedAmount[Owner] = 1000 /\ balanceOf[This] >= 1000
    /\ ~paused

C27_Paid(c, r, res) ==
    /\ res.err = "ok"
    /\ res.minted = r
    /\ res.balanceOf[c] = balanceOf[c] + r
    /\ res.totalSupply = totalSupply + r
    /\ res.stakingStartTime[c] = now
    /\ res.stakedAmount[c] = stakedAmount[c]
    /\ res.totalStaked = totalStaked
    /\ res.balanceOf[This] = balanceOf[This]

\* As stated: refused when the reward is 0, paid otherwise.
C27_ClaimAsStated ==
    \A c \in Callers :
        LET r   == calculateRewards(Storage, now, c)
            res == claimRewards(Storage, now, c)
        IN  IF r = 0
            THEN res.err = "No rewards to claim" /\ Outcome(res).minted = 0
            ELSE C27_Paid(c, r, res)

C27_Outcome ==
    \A c \in Callers :
        LET r   == calculateRewards(Storage, now, c)
            res == claimRewards(Storage, now, c)
        IN  /\ r = 0 => res.err = "No rewards to claim"
            /\ (r > 0 /\ paused) => res.err = "EnforcedPause"
            /\ (r > 0 /\ ~paused) => C27_Paid(c, r, res)

C27_Step ==
    /\ CommittedOp("claimRewards") =>
           LET c == last'.sender
               r == calculateRewards(Storage, now, c)
           IN  /\ r > 0 /\ ~paused
               /\ last'.minted = r
               /\ balanceOf' = [balanceOf EXCEPT ![c] = @ + r]
               /\ totalSupply' = totalSupply + r
               /\ stakingStartTime' = [stakingStartTime EXCEPT ![c] = now]
               /\ UNCHANGED <<stakedAmount, totalStaked, rewardRate, paused>>
    /\ (last'.op = "claimRewards" /\ last'.err # "ok") => UNCHANGED ledger

\* C27 (amended): claimRewards() fails with "No rewards to claim" and
\* changes nothing when calculateRewards(caller) = 0; with a reward due on
\* a paused token it fails with EnforcedPause and changes nothing;
\* otherwise it increases balanceOf[caller] and totalSupply by exactly
\* calculateRewards(caller), sets stakingStartTime[caller] to now and
\* leaves stakedAmount[caller], totalStaked and the pool balance unchanged.
C27_ClaimRewards == []C27_Outcome /\ [][C27_Step]_vars

\* The owner's stake has earned a reward, the token is paused and the claim
\* has just been refused.
C27_Witness ==
    /\ last.op = "claimRewards" /\ last.err = "EnforcedPause"
    /\ paused
    /\ calculateRewards(Storage, now, Owner) > 0
    /\ totalSupply = INITIAL_SUPPLY

\* Amounts above the caller's balance, up to balance plus stake and beyond.
C28_Overdrafts(c) ==
    {balanceOf[c] + 1, balanceOf[c] + stakedAmount[c],
     balanceOf[c] + stakedAmount[c] + 1} \ {balanceOf[c]}

\* As stated: an amount above the balance is refused with
\* ERC20InsufficientBalance, by transfer and by burn.
C28_OverdraftAsStated ==
    \A c \in Callers :
        \A amount \in C28_Overdrafts(c) :
            /\ \A to \in Holders :
                   transfer(Storage, c, to, amount).err = "ERC20InsufficientBalance"
            /\ burn(Storage, c, amount).err = "ERC20InsufficientBalance"

C28_Refused ==
    \A c \in Callers :
        \A amount \in C28_Overdrafts(c) :
            LET expected == IF paused THEN "EnforcedPause"
                            ELSE "ERC20InsufficientBalance"
            IN  /\ \A to \in Holders :
                       transfer(Storage, c, to, amount).err = expected
                /\ burn(Storage, c, amount).err = expected

C28_Step ==
    /\ CommittedOp("transfer") =>
           LET c == last'.sender
               amount == last'.amount
               debited == [balanceOf EXCEPT ![c] = @ - amount]
           IN  /\ ~paused /\ amount <= balanceOf[c]
               /\ balanceOf' = [debited EXCEPT ![last'.to] = @ + amount]
               /\ UNCHANGED <<totalSupply, stakedAmount, totalStaked>>
    /\ CommittedOp("burn") =>
           LET c == last'.sender
               amount == last'.amount
           IN  /\ ~paused /\ amount <= balanceOf[c]
               /\ balanceOf' = [balanceOf EXCEPT ![c] = @ - amount]
               /\ totalSupply' = totalSupply - amount
               /\ UNCHANGED <<stakedAmount, totalStaked>>

\* C28 (amended): staked tokens are not spendable.  transfer(to, amount) to
\* a nonzero address or burn(amount) with amount greater than the caller's
\* balance fails even when balance + stakedAmount >= amount: with
\* ERC20InsufficientBalance while the token is not paused, with
\* EnforcedPause while it is paused.  A successful transfer moves exactly
\* amount and leaves totalSupply, every stakedAmount and totalStaked
\* unchanged; a successful burn decreases the caller's balance and
\* totalSupply by exactly amount.
C28_StakedNotSpendable == []C28_Refused /\ [][C28_Step]_vars

\* The owner has staked the whole balance, the token is paused, and a
\* transfer has just been refused because of the pause.
C28_Witness ==
    /\ last.op = "transfer" /\ last.err = "EnforcedPause"
    /\ paused
    /\ balanceOf[Owner] = 0 /\ stakedAmount[Owner] = 1000

\* An account is Staked iff its stakedAmount is positive.
Staked(a) == stakedAmount[a] > 0

C29_Step ==
    \A a \in Holders :
        stakedAmount'[a] # stakedAmount[a] =>
            /\ Committed
            /\ last'.sender = a
            /\ \/ /\ last'.op = "stake"
                  /\ last'.amount > 0
                  /\ stakedAmount'[a] = stakedAmount[a] + last'.amount
               \/ /\ last'.op = "unstake"
                  /\ last'.amount > 0
                  /\ stakedAmount'[a] = stakedAmount[a] - last'.amount
            /\ (Staked(a) /\ ~Staked(a)') =>
                   /\ last'.op = "unstake"
                   /\ stakedAmount'[a] = 0
                   /\ last'.amount = stakedAmount[a]
            /\ (~Staked(a) /\ Staked(a)') => last'.op = "stake"

\* No stake is negative, so Staked and Unstaked (stakedAmount = 0) are the
\* only two sub-states; the contract's own address never stakes.
C29_TwoStates ==
    /\ \A a \in Holders : stakedAmount[a] >= 0
    /\ stakedAmount[This] = 0

\* C29: an account is Staked iff stakedAmount > 0.  An account's
\* stakedAmount changes only in a successful stake or unstake by that
\* account, by exactly the amount of the call: Unstaked -> Staked happens
\* only in a successful stake, Staked -> Unstaked only in a successful
\* unstake that brings stakedAmount to exactly 0; claimRewards, transfer,
\* burn, mint, pause, unpause, updateRewardRate and every call by another
\* account leave it unchanged.
C29_StakingStateMachine == []C29_TwoStates /\ [][C29_Step]_vars

\* The owner staked 500 and has just unstaked all of it.
C29_Witness ==
    /\ last.op = "unstake" /\ last.err = "ok"
    /\ last.sender = Owner /\ last.amount = 500
    /\ stakedAmount[Owner] = 0
    /\ balanceOf[Owner] >= INITIAL_SUPPLY

\* The latest verification record of u is a rejection.
Rejected(u) ==
    /\ verifications[u] # << >>
    /\ ~verifications[u][Len(verifications[u])].isValid

\* While a rejected identity is active, every authorized verifier can
\* still verify it, and the identity then counts as verified.
C30_Retryable ==
    \A u \in IdCallers :
        (Rejected(u) /\ identities[u].isActive) =>
            /\ ~identities[u].isVerified
            /\ \A v \in IdCallers, reason \in ReasonInputs :
                   authorizedVerifiers[v] =>
                       LET res == verifyIdentity(Registry, now, v, u, TRUE, reason)
                       IN  /\ res.err = "ok"
                           /\ hasVerifiedIdentity(res, u)
                           /\ Len(res.verifications[u]) = Len(verifications[u]) + 1

C30_Step ==
    (CommittedOp("verifyIdentity") /\ ~last'.isValid) =>
        LET u == last'.user
        IN  /\ identities' = identities
            /\ identities'[u].isActive /\ ~identities'[u].isVerified
            /\ Len(verifications'[u]) = Len(verifications[u]) + 1
            /\ SubSeq(verifications'[u], 1, Len(verifications[u])) = verifications[u]
            /\ LET rec == verifications'[u][Len(verifications'[u])]
               IN  /\ rec.verifier = last'.sender
                   /\ rec.timestamp = now
                   /\ ~rec.isValid
            /\ \A w \in IdCallers \ {u} : verifications'[w] = verifications[w]
            /\ UNCHANGED <<identityHashToAddress, authorizedVerifiers, registryOwner>>

\* C30: a successful verifyIdentity(user, false, reason) leaves
\* identities[user] unchanged (active, isVerified false) and appends exactly
\* one record with isValid = false to the user's history; while the
\* rejected identity stays active, verifyIdentity(user, true, ...) by any
\* authorized verifier succeeds and makes hasVerifiedIdentity(user) true.
C30_RejectionRetryable == []C30_Retryable /\ [][C30_Step]_vars

\* alice was rejected first and verified on the second attempt.
C30_Witness ==
    /\ last.op = "verifyIdentity" /\ last.err = "ok" /\ last.isValid
    /\ last.user = "alice"
    /\ Len(verifications["alice"]) = 2
    /\ ~verifications["alice"][1].isValid
    /\ verifications["alice"][2].isValid
    /\ hasVerifiedIdentity(Registry, "alice")

\* The step is a successful verifyIdentity on u.
VerifiedStep(u) == CommittedOp("verifyIdentity") /\ last'.user = u

C31_Step ==
    \A u \in IdCallers :
        IF VerifiedStep(u)
        THEN \E reason \in ReasonInputs :
                 verifications'[u] =
                     Append(verifications[u],
                            [verifier |-> last'.sender, timestamp |-> now,
                             isValid |-> last'.isValid, reason |-> reason])
        ELSE verifications'[u] = verifications[u]

\* The view returns the length of the history, and a history is never
\* longer than the number of successful calls made so far.
C31_Count ==
    \A u \in IdCallers :
        /\ getVerificationCount(Registry, u) = Len(getVerificationHistory(Registry, u))
        /\ getVerificationHistory(Registry, u) = verifications[u]
        /\ Len(verifications[u]) <= calls

\* C31: the verification history of each address is append-only.  A
\* successful verifyIdentity(user, isValid, reason) appends exactly one
\* record (verifier = caller, timestamp = now, isValid, reason) to user's
\* history and leaves the existing records as they were; every failed call
\* and every other operation, revokeIdentity and a later registerIdentity
\* included, leaves every history unchanged.  getVerificationCount(user) is
\* the length of the history, hence the number of successful verifyIdentity
\* calls on user.
C31_AppendOnlyHistory == []C31_Count /\ [][C31_Step]_vars

\* alice was verified and revoked, and has just registered a new identity
\* under another hash: the record of the first identity is still there.
C31_Witness ==
    /\ last.op = "registerIdentity" /\ last.err = "ok"
    /\ last.sender = "alice" /\ last.hash = 2
    /\ identities["alice"].identityHash = 2
    /\ getVerificationCount(Registry, "alice") = 1
    /\ verifications["alice"][1].verifier = Owner

\* As stated: a verified identity record is verified in every later state.
C32_NeverFalseAgainAsStated ==
    [][\A u \in IdCallers :
           identities[u].isVerified => identities'[u].isVerified]_vars

C32_Step ==
    \A u \in IdCallers :
        /\ (~identities[u].isVerified /\ identities'[u].isVerified) =>
               /\ VerifiedStep(u) /\ last'.isValid
               /\ authorizedVerifiers[last'.sender]
        /\ (identities[u].isVerified /\ ~identities'[u].isVerified) =>
               /\ CommittedOp("registerIdentity") /\ last'.sender = u
               /\ Revoked(u)
               /\ identities'[u].isActive
               /\ identities'[u].identityHash = last'.hash
               /\ identities'[u].createdAt = now

\* A verified identity admits no further verification, accepted or rejected.
C32_NoSecondOutcome ==
    \A u \in IdCallers :
        identities[u].isVerified =>
            \A v \in IdCallers, isValid \in BOOLEAN, reason \in ReasonInputs :
                verifyIdentity(Registry, now, v, u, isValid, reason).err # "ok"

\* C32 (amended): isVerified of an identity is set at most once, from false
\* to true, by a successful verifyIdentity(user, true, ...) of an authorized
\* verifier; after that no verifyIdentity on user succeeds, and
\* identities[user].isVerified stays true through every operation,
\* revokeIdentity included, except a registerIdentity by user itself after
\* a revocation, which creates a new identity with isVerified false.
C32_VerifiedUntilReregistered == []C32_NoSecondOutcome /\ [][C32_Step]_vars

\* alice was verified and revoked, and has just registered the same hash
\* again: the new identity is unverified.
C32_Witness ==
    /\ last.op = "registerIdentity" /\ last.err = "ok"
    /\ last.sender = "alice" /\ last.hash = 1
    /\ calls = 4
    /\ ~identities["alice"].isVerified
    /\ verifications["alice"] # << >>
    /\ verifications["alice"][Len(verifications["alice"])].isValid

\* In registry state s, every verifyIdentity on u and every updateMetadata
\* by u is refused because u has no active identity (a caller who is not an
\* authorized verifier is refused for that reason first).
C33_Unusable(s, u) ==
    /\ \A v \in IdCallers, isValid \in BOOLEAN, reason \in ReasonInputs :
           verifyIdentity(s, now, v, u, isValid, reason).err =
               IF s.authorizedVerifiers[v] THEN "Identity does not exist"
               ELSE "Not authorized verifier"
    /\ \A metadata \in MetadataInputs :
           updateMetadata(s, u, metadata).err = "Identity does not exist"

C33_Outcome ==
    \A u \in IdCallers :
        LET res == revokeIdentity(Registry, registryOwner, u)
            h   == identities[u].identityHash
        IN  /\ ~identities[u].isActive =>
                   /\ res.err = "Identity does not exist"
                   /\ C33_Unusable(Registry, u)
            /\ (identities[u].isActive /\ registryOwner \in IdCallers) =>
                   /\ res.err = "ok"
                   /\ res.identities = [identities EXCEPT ![u].isActive = FALSE]
                   /\ res.identityHashToAddress =
                          [identityHashToAddress EXCEPT ![h] = ZERO]
                   /\ getAddressByIdentityHash(res, h) = ZERO
                   /\ ~hasVerifiedIdentity(res, u)
                   /\ res.verifications = verifications
                   /\ res.authorizedVerifiers = authorizedVerifiers
                   /\ res.owner = registryOwner
                   /\ C33_Unusable(res, u)

C33_Step ==
    CommittedOp("revokeIdentity") =>
        LET u == last'.user
        IN  /\ last'.sender = registryOwner
            /\ identities[u].isActive
            /\ identities' = [identities EXCEPT ![u].isActive = FALSE]
            /\ identityHashToAddress' =
                   [identityHashToAddress EXCEPT ![identities[u].identityHash] = ZERO]
            /\ UNCHANGED <<verifications, authorizedVerifiers, registryOwner>>

\* C33: revokeIdentity(user) by the owner fails with "Identity does not
\* exist" when user has no active identity (never registered or already
\* revoked); otherwise it sets isActive to false, clears
\* identityHashToAddress for user's hash, so that getAddressByIdentityHash
\* returns the zero address, makes hasVerifiedIdentity(user) false, and
\* leaves identityHash, isVerified, metadata, createdAt, every verification
\* history and every other address's identity unchanged.  While user has
\* no active identity, verifyIdentity(user, ...) by an authorized verifier
\* and updateMetadata by user fail with "Identity does not exist".
C33_RevokeIdentity == []C33_Outcome /\ [][C33_Step]_vars

\* alice changed her metadata, was verified, and has just been revoked.
C33_Witness ==
    /\ last.op = "revokeIdentity" /\ last.err = "ok" /\ last.user = "alice"
    /\ identities["alice"].isVerified /\ ~identities["alice"].isActive
    /\ identities["alice"].metadata = "ipfs-2"
    /\ ~hasVerifiedIdentity(Registry, "alice")
    /\ getVerificationCount(Registry, "alice") = 1

C34_Outcome ==
    \A c \in IdCallers, metadata \in MetadataInputs :
        LET res == updateMetadata(Registry, c, metadata)
        IN  IF ~identities[c].isActive
            THEN res.err = "Identity does not exist"
            ELSE /\ res.err = "ok"
                 /\ res.identities = [identities EXCEPT ![c].metadata = metadata]
                 /\ getIdentity(res, c).identityHash = identities[c].identityHash
                 /\ getIdentity(res, c).createdAt = identities[c].createdAt
                 /\ getIdentity(res, c).isVerified = identities[c].isVerified
                 /\ getIdentity(res, c).isActive
                 /\ hasVerifiedIdentity(res, c) = hasVerifiedIdentity(Registry, c)
                 /\ res.identityHashToAddress = identityHashToAddress
                 /\ res.authorizedVerifiers = authorizedVerifiers
                 /\ res.verifications = verifications
                 /\ res.owner = registryOwner

C34_Step ==
    CommittedOp("updateMetadata") =>
        LET c == last'.sender
        IN  /\ identities[c].isActive
            /\ \E metadata \in MetadataInputs :
                   identities' = [identities EXCEPT ![c].metadata = metadata]
            /\ UNCHANGED <<verifications, identityHashToAddress,
                           authorizedVerifiers, registryOwner>>

\* C34: updateMetadata(metadata) fails with "Identity does not exist" when
\* the caller has no active identity and succeeds otherwise, whatever the
\* metadata; it changes only identities[caller].metadata and leaves the
\* caller's identityHash, createdAt, isVerified and isActive, the reverse
\* index, the verifier set, every verification history and every other
\* address's identity unchanged, so a verified identity stays verified.
C34_UpdateMetadata == []C34_Outcome /\ [][C34_Step]_vars

\* alice is verified and has just changed her metadata.
C34_Witness ==
    /\ last.op = "updateMetadata" /\ last.err = "ok" /\ last.sender = "alice"
    /\ identities["alice"].metadata = "ipfs-2"
    /\ hasVerifiedIdentity(Registry, "alice")
    /\ identityHashToAddress[identities["alice"].identityHash] = "alice"

\* In registry state s every verifyIdentity by v is refused as unauthorized.
C35_Locked(s, v) ==
    \A u \in IdCallers, isValid \in BOOLEAN, reason \in ReasonInputs :
        verifyIdentity(s, now, v, u, isValid, reason).err = "Not authorized verifier"

\* Everything but the verifier set is as in the current state.
C35_Frame(res) ==
    /\ res.identities = identities
    /\ res.verifications = verifications
    /\ res.identityHashToAddress = identityHashToAddress
    /\ res.owner = registryOwner

C35_Outcome ==
    registryOwner \in IdCallers =>
        \A v \in VerifierInputs :
            LET a == authorizeVerifier(Registry, registryOwner, v)
                r == revokeVerifier(Registry, registryOwner, v)
            IN  /\ IF v = ZERO THEN a.err = "Invalid verifier address"
                   ELSE IF authorizedVerifiers[v]
                        THEN a.err = "Verifier already authorized"
                   ELSE /\ a.err = "ok"
                        /\ a.authorizedVerifiers =
                               [authorizedVerifiers EXCEPT ![v] = TRUE]
                        /\ C35_Frame(a)
                /\ IF ~authorizedVerifiers[v] THEN r.err = "Verifier not authorized"
                   ELSE IF v = registryOwner THEN r.err = "Cannot revoke owner"
                   ELSE /\ r.err = "ok"
                        /\ r.authorizedVerifiers =
                               [authorizedVerifiers EXCEPT ![v] = FALSE]
                        /\ C35_Frame(r)
                        /\ C35_Locked(r, v)

\* An address outside the set cannot verify.
C35_OutsideLocked ==
    \A v \in IdCallers : ~isAuthorizedVerifier(Registry, v) => C35_Locked(Registry, v)

C35_Step ==
    /\ \A v \in VerifierInputs :
           /\ (~authorizedVerifiers[v] /\ authorizedVerifiers'[v]) =>
                  /\ CommittedOp("authorizeVerifier")
                  /\ last'.user = v /\ last'.sender = registryOwner
           /\ (authorizedVerifiers[v] /\ ~authorizedVerifiers'[v]) =>
                  /\ CommittedOp("revokeVerifier")
                  /\ last'.user = v /\ last'.sender = registryOwner
                  /\ v # registryOwner
    /\ (CommittedOp("authorizeVerifier") \/ CommittedOp("revokeVerifier")) =>
           /\ authorizedVerifiers'[last'.user] = CommittedOp("authorizeVerifier")
           /\ UNCHANGED <<identities, verifications, identityHashToAddress,
                          registryOwner>>

\* C35: authorizeVerifier(v) by the owner fails with "Invalid verifier
\* address" for the zero address and with "Verifier already authorized" if
\* v is in the set, else adds v.  revokeVerifier(v) by the owner fails with
\* "Verifier not authorized" if v is not in the set, with "Cannot revoke
\* owner" if v is the owner, else removes v.  Both change nothing but the
\* verifier set, so identities that v verified keep isVerified and their
\* records.  An address leaves the set only by revokeVerifier and enters it
\* only by authorizeVerifier, and while it is outside every verifyIdentity
\* it makes fails with "Not authorized verifier".
C35_VerifierSet ==
    [](C35_Outcome /\ C35_OutsideLocked) /\ [][C35_Step]_vars

\* alice was authorized, verified the owner's identity, and has just been
\* removed from the set; the owner's identity is still verified.
C35_Witness ==
    /\ last.op = "revokeVerifier" /\ last.err = "ok" /\ last.user = "alice"
    /\ ~isAuthorizedVerifier(Registry, "alice")
    /\ hasVerifiedIdentity(Registry, Owner)
    /\ verifications[Owner][1].verifier = "alice"

\* The events the last call has emitted.
Emitted == {last.log[i] : i \in DOMAIN last.log}

\* C36: whenever IdentityVerified(user, verifier) has been emitted, the
\* resulting state has identities[user].isVerified and isActive, that is
\* hasVerifiedIdentity(user).
C36_VerifiedEventMeansVerified ==
    \A e \in Emitted :
        e.name = "IdentityVerified" =>
            /\ identities[e.user].isVerified
            /\ identities[e.user].isActive
            /\ hasVerifiedIdentity(Registry, e.user)

\* The latest verification record of u.
LastRecord(u) == verifications[u][Len(verifications[u])]

C40_Audited ==
    \A u \in IdCallers :
        identities[u].isVerified =>
            /\ getVerificationCount(Registry, u) > 0
            /\ LastRecord(u).isValid
            /\ LastRecord(u).verifier \in IdCallers

C40_Step ==
    \A u \in IdCallers :
        /\ VerifiedStep(u) =>
               /\ authorizedVerifiers[last'.sender]
               /\ LastRecord(u)'.verifier = last'.sender
               /\ LastRecord(u)'.isValid = last'.isValid
               /\ identities'[u].isVerified = last'.isValid
        /\ (~identities[u].isVerified /\ identities'[u].isVerified) =>
               /\ VerifiedStep(u)
               /\ Len(verifications'[u]) = Len(verifications[u]) + 1
               /\ LastRecord(u)'.isValid
               /\ LastRecord(u)'.timestamp = now

\* C40: whenever identities[user].isVerified is true, user's verification
\* history is non-empty and its last record has isValid = true; every
\* record is written by the caller of a successful verifyIdentity, who is
\* an authorized verifier at the time of the call, and an identity becomes
\* verified only in the step that appends its accepting record.
C40_VerifiedHasAuditRecord == []C40_Audited /\ [][C40_Step]_vars

\* alice verified her own identity while she was an authorized verifier and
\* has since been removed from the set: the identity is still verified and
\* its record names her.
C40_Witness ==
    /\ last.op = "revokeVerifier" /\ last.err = "ok"
    /\ ~authorizedVerifiers["alice"]
    /\ identities["alice"].isVerified
    /\ LastRecord("alice").verifier = "alice"
    /\ LastRecord("alice").isValid

\* Amounts a staker may withdraw: one unit, half the stake, the whole stake.
C37_Withdrawals(c) ==
    {x \in {1, stakedAmount[c] \div 2, stakedAmount[c]} : 0 < x /\ x <= stakedAmount[c]}

C37_Solvent ==
    /\ balanceOf[This] >= totalStaked
    /\ \A a \in Holders : stakedAmount[a] <= totalStaked

C37_CanWithdraw ==
    ~paused =>
        \A c \in Callers :
            \A x \in C37_Withdrawals(c) :
                LET res == unstake(Storage, now, c, x)
                IN  /\ res.err = "ok"
                    /\ res.stakedAmount[c] = stakedAmount[c] - x
                    /\ res.balanceOf[c] = balanceOf[c] + x + res.minted
                    /\ res.balanceOf[This] = balanceOf[This] - x
                    /\ res.balanceOf[This] >= res.totalStaked

\* C37: in every reachable state the pool account's balance is at least
\* totalStaked and stakedAmount[a] <= totalStaked for every a; whenever the
\* token is not paused, unstake(x) with 0 < x <= stakedAmount[caller]
\* succeeds for every staker and pays x back, whatever other accounts have
\* done.
C37_PoolSolvency == C37_Solvent /\ C37_CanWithdraw

\* The owner staked 500, sent another 500 straight to the pool, and has
\* just withdrawn the stake: the pool holds more than is staked.
C37_Witness ==
    /\ last.op = "unstake" /\ last.err = "ok" /\ last.sender = Owner
    /\ totalStaked = 0
    /\ balanceOf[This] = 500
    /\ balanceOf[Owner] >= 500

C38_Rates == {0, 1, INITIAL_REWARD_RATE, 500, MAX_REWARD_RATE}

\* The reward of a at rate r over the whole time since a's checkpoint.
C38_Pending(a, r) ==
    (stakedAmount[a] * r * (now - stakingStartTime[a])) \div (DAYS_365 * BASIS_POINTS)

C38_Outcome ==
    tokenOwner \in Callers =>
        \A r \in C38_Rates :
            LET res == updateRewardRate(Storage, tokenOwner, r)
            IN  /\ res.err = "ok"
                /\ res.rewardRate = r
                /\ res.stakingStartTime = stakingStartTime
                /\ res.stakedAmount = stakedAmount
                /\ res.balanceOf = balanceOf
                /\ res.totalSupply = totalSupply
                /\ res.totalStaked = totalStaked
                /\ \A a \in Holders :
                       /\ calculateRewards(res, now, a) = C38_Pending(a, r)
                       /\ r = 0 => calculateRewards(res, now, a) = 0
                /\ \A c \in Callers :
                       r = 0 => claimRewards(res, now, c).err = "No rewards to claim"

C38_Step ==
    CommittedOp("updateRewardRate") =>
        /\ rewardRate' = last'.amount
        /\ UNCHANGED <<balanceOf, totalSupply, stakedAmount, stakingStartTime,
                       totalStaked, paused, tokenOwner, now>>

\* C38: updateRewardRate neither settles nor checkpoints any staker: it
\* writes rewardRate and nothing else, so after updateRewardRate(r) the
\* pending reward of every staker a is stakedAmount[a] * r * (now -
\* stakingStartTime[a]) / (one year * 10000), counted at the new rate over
\* the whole time since a's checkpoint; after updateRewardRate(0)
\* calculateRewards is 0 for every address and claimRewards fails with
\* "No rewards to claim".
C38_RateChangeNoCheckpoint == []C38_Outcome /\ [][C38_Step]_vars

\* The owner staked 500 a year ago at rate 100 and has just set the rate to
\* 0: the 5 tokens earned under the old rate are no longer pending.
C38_Witness ==
    /\ last.op = "updateRewardRate" /\ last.err = "ok" /\ last.amount = 0
    /\ rewardRate = 0
    /\ stakedAmount[Owner] = 500
    /\ now - stakingStartTime[Owner] = 365
    /\ calculateRewards(Storage, now, Owner) = 0
    /\ totalSupply = INITIAL_SUPPLY

\* The step decreases the balance or the stake of b.
Decreased(b) == balanceOf'[b] < balanceOf[b] \/ stakedAmount'[b] < stakedAmount[b]

\* The step is a successful call of b's own that spends or stakes.
OwnSpending(b) ==
    /\ Committed
    /\ last'.sender = b
    /\ last'.op \in {"transfer", "burn", "stake", "unstake"}

\* As stated, in what follows from it for any list of operations: the
\* balance and the stake of b decrease only in calls that b itself makes.
C39_OnlyOwnCallsAsStated ==
    [][\A b \in Callers : Decreased(b) => (Committed /\ last'.sender = b)]_vars

\* The step is a successful transferFrom or burnFrom that takes the amount
\* of the call from b's balance, within the allowance b has given the caller.
C39_AllowanceSpending(b) ==
    LET spender == last'.sender
        amount  == last'.amount
    IN  /\ Committed
        /\ last'.op \in {"transferFrom", "burnFrom"}
        /\ amount > 0
        /\ amount <= allowance[b][spender]
        /\ allowance'[b][spender] =
               IF allowance[b][spender] = MAX_UINT256 THEN MAX_UINT256
               ELSE allowance[b][spender] - amount
        /\ balanceOf[b] - balanceOf'[b] \in {amount, 0}
        /\ stakedAmount'[b] = stakedAmount[b]

C39_Step ==
    \A b \in Callers :
        /\ Decreased(b) => (OwnSpending(b) \/ C39_AllowanceSpending(b))
        /\ \A spender \in Callers :
               allowance'[b][spender] > allowance[b][spender] =>
                   /\ CommittedOp("approve")
                   /\ last'.sender = b /\ last'.to = spender
                   /\ allowance'[b][spender] = last'.amount

\* Without an allowance from b no other caller can take anything from b.
C39_NoAllowanceNoSpending ==
    \A b \in Callers :
        \A spender \in Callers \ {b}, amount \in {1, 500, balanceOf[b]} \ {0} :
            allowance[b][spender] < amount =>
                /\ \A to \in Recipients :
                       transferFrom(Storage, spender, b, to, amount).err
                           = "ERC20InsufficientAllowance"
                /\ burnFrom(Storage, spender, b, amount).err
                       = "ERC20InsufficientAllowance"

\* C39 (amended): stakedAmount[B] decreases only in B's own unstake, and
\* balance[B] decreases only in B's own transfer, burn or stake, or in a
\* transferFrom or burnFrom whose caller B has approved, by an amount
\* within that allowance; the allowance is raised only by B's own approve
\* and is used up by the spending unless it is unlimited.  The owner has no
\* more power over another address's balance than any other caller.
C39_NoThirdPartyDebit == []C39_NoAllowanceNoSpending /\ [][C39_Step]_vars

\* The owner approved alice for 500 and alice has just moved the 500 to
\* herself; the allowance is used up.
C39_Witness ==
    /\ last.op = "transferFrom" /\ last.err = "ok"
    /\ last.sender = "alice" /\ last.to = "alice" /\ last.amount = 500
    /\ balanceOf[Owner] = INITIAL_SUPPLY - 500
    /\ balanceOf["alice"] = 500
    /\ allowance[Owner]["alice"] = 0

====
